---------------------------- MODULE Spec2Model ----------------------------
(***************************************************************************)
(* Model of the kontent-ai-migration-toolkit import/export engine.         *)
(*                                                                         *)
(* Part I  : the bounded-parallel processing harness (processItemsAsync),  *)
(*           in its two shapes found in the sources:                       *)
(*             "utils"  - src/lib/core/utils/processing-utils.ts           *)
(*             "helper" - src/lib/core/translation-helper.ts (517-586)     *)
(* Part II : the language-variant importer and its workflow driver         *)
(*           (language-variant-importer.ts, workflow-importer.ts) running  *)
(*           against a target language variant of the management API.      *)
(* Part III: a run of the language-variant importer over several items.    *)
(* Part IV : the content items importer (content-items-importer.ts).       *)
(* Part V  : a request under defaultRetryStrategy (retry predicate).       *)
(* Part VI : the harness while a cancellation signal arrives.              *)
(* Part VII: the pipeline stages and their parallel limits.                *)
(* Part VIII-IX: the export context (export-context-fetcher.ts):           *)
(*           preparation of the export items, states of referenced ids.    *)
(* Part X  : mapping to migration items and the export transforms.         *)
(* Part XI : migrateAsync.                                                 *)
(***************************************************************************)
EXTENDS Integers, Sequences, FiniteSets, TLC

(***************************************************************************)
(* Bounds of the model.                                                    *)
(***************************************************************************)
MaxItems == 3
MaxLimit == 2
MaxVersions == 2

VARIABLES
    \* ---- Part I: processing harness ----
    impl,                 \* which processItemsAsync: "utils" | "helper"
    nItems,               \* data.items.length; the items are 1..nItems
    parallelLimit,        \* data.parallelLimit
    failOnError,          \* data.failOnError: "true" | "false" | "undefined"
    status,               \* per item: "queued" | "running" | "settled"
    queue,                \* p-limit's FIFO queue of not yet started items
    activeCount,          \* p-limit's activeCount
    requests,             \* per item: the settled value of requests[i]
    processedItemsCount,  \* the harness' progress counter
    errorLog,             \* items for which an error was logged
    prefixes,             \* the percentage prefixes handed to logSpinner, in order
    call,                 \* the call: "idle" | "pending" | "returned" | "threw"
    resultItems,          \* the array the call returned
    \* ---- Part II: import of one migration item's language variant ----
    workflow,             \* the item's workflow in the target environment
    versions,             \* migrationItem.versions
    preparedContentItem,  \* whether preparedContentItems holds the item's content item
    observed,             \* targetVariantState, as the import context saw it
    target,               \* the language variant as it is in the target
    targetWorkflow,       \* codename of the workflow the target variant is in
    pc,                   \* 0 before the import; else the place in Program of the awaited call
    variantStep,          \* step of the variant the last upsert returned
    calls,                \* the management API calls issued so far, in order
    logs,                 \* log entries emitted: [type, at (index in calls)]
    result,               \* "idle" | "running" | "done" | "failed"
    error,                \* what the import threw
    \* ---- Part IV: the content items importer ----
    migrationItems,       \* categorizedImportData.contentItems
    itemStates,           \* importContext: item state in the target, by codename
    createdContentItems,  \* the memo: codename -> content item created in this run
    contentItemCalls,     \* addContentItem / upsertContentItem calls issued so far
    itemPc,               \* importContentItemAsync of the running item: where it is
    \* ---- Part V: one management API request under the retry strategy ----
    responses,            \* what the attempts made so far came back with
    retryState,           \* "idle" | "requesting" | "errored" | "succeeded" | "failed"
    \* ---- the environment of a run ----
    cancelSignal,         \* whether a cancellation signal has been received
    pipelineStage,        \* the pipeline stage that called the harness, if one is modelled
    \* ---- Part VIII: preparation of the export items ----
    sourceItems,          \* config.exportItems, each with what the source holds for it
    exportPc,             \* the call the running item's processAsync awaits
    exportCalls,          \* the management API calls issued so far, in order
    exportVersions,       \* per request item: the versions its processAsync returned
    exportErrors,         \* the request items reported as errors, in order
    exportItems,          \* what prepareExportItemsAsync returned
    \* ---- Part IX: the states of the referenced items and assets ----
    referenceKind,        \* "item" | "asset": which lookup is built
    referencedIds,        \* the ids to fetch, each with what the source answers for it
    extractedIds,         \* referencedData.itemIds / assetIds: the ids found in the elements
    preparedIds,          \* the ids of the content items of the prepared export items
    statesById,           \* the lookup getItemStatesAsync / getAssetStatesAsync returned
    \* ---- Part X: mapping of the export items to migration items ----
    mapItems,             \* context.exportItems, each with its elements
    mappedItems,          \* MigrationData.items
    mapErrorLog,          \* the export items logged with a mapError
    mapPc,                \* "idle" | "mapped"
    \* ---- Part XI: migrateAsync ----
    mapMigrationData,     \* config.mapMigrationData: which function the caller supplied
    migratePc,            \* where migrateAsync is
    migrateLog,           \* what migrateAsync has done so far, in order
    \* ---- Part XII: the assets importer ----
    migrationAssets,      \* the assets of the snapshot, each with what the import context holds for it
    assetHarness,         \* which processItemsAsync runs the queues: "utils" | "helper"
    assetsToEdit,         \* what getAssetsToEdit() returned
    assetsToUpload,       \* what getAssetsToUpload() returned
    assetPhase,           \* per asset: where its processAsync is
    assetCalls,           \* the management API calls issued so far, in order
    assetPc,              \* where importAsync is
    \* ---- Part XIII: the round trip of an element value ----
    sourceElement,        \* the element of the language variant in the source
    migrationElement,     \* what the export transform made of it
    targetElement,        \* the element the import transform sent to the target
    reExportedElement,    \* what the export transform makes of the target's element
    roundTripPc,          \* "source" | "exported" | "imported" | "reExported"
    \* ---- Part XIV: the links of a rich text value ----
    richTextAnchors,      \* the anchors of the rich text value in the source
    itemCodename,         \* the codename of the one item the source and the snapshot have
    replaceInvalidLinks,  \* config.replaceInvalidLinks
    itemImported,         \* whether importedData has the item
    exportedHtml,         \* processedHtml of the export
    importedHtml,         \* what the link pass of the import made of it
    richTextWarnings,     \* the warnings logged, in order
    richTextPc            \* "source" | "exported" | "imported"

harnessVars == <<impl, nItems, parallelLimit, failOnError, status, queue,
                 activeCount, requests, processedItemsCount, errorLog, call,
                 resultItems, prefixes>>

importVars == <<workflow, versions, preparedContentItem, observed, target, targetWorkflow, pc, variantStep, calls,
                logs, result, error>>

contentItemVars == <<migrationItems, itemStates, createdContentItems,
                     contentItemCalls, itemPc>>

retryVars == <<responses, retryState>>

signalVars == <<cancelSignal>>

stageVars == <<pipelineStage>>

exportVars == <<sourceItems, exportPc, exportCalls, exportVersions, exportErrors,
                exportItems>>

closureVars == <<referenceKind, referencedIds, extractedIds, preparedIds, statesById>>

mapVars == <<mapItems, mappedItems, mapErrorLog, mapPc>>

migrateVars == <<mapMigrationData, migratePc, migrateLog>>

assetVars == <<migrationAssets, assetHarness, assetsToEdit, assetsToUpload,
               assetPhase, assetCalls, assetPc>>

\* the parts after Part XI
roundTripVars == <<sourceElement, migrationElement, targetElement, reExportedElement,
                   roundTripPc>>

richTextVars == <<richTextAnchors, itemCodename, replaceInvalidLinks, itemImported,
                  exportedHtml, importedHtml, richTextWarnings, richTextPc>>

furtherVars == <<assetVars, roundTripVars, richTextVars>>

restVars == <<closureVars, mapVars, migrateVars, furtherVars>>

\* what Parts I-IV leave alone
laterVars == <<retryVars, signalVars, stageVars, exportVars, restVars>>

vars == <<harnessVars, importVars, contentItemVars, laterVars>>

(***************************************************************************)
(* Part I. The processing harness.                                         *)
(***************************************************************************)
Items == 1..nItems

\* What processAsync(item) can do: resolve with an output, resolve with the
\* '404' sentinel (utils only: the helper's processAsync has no such value),
\* or reject.
Outcomes(i) == IF impl = "utils" THEN {"ok", "404", "throw"} ELSE {"ok", "throw"}

OutputOf(i) == [kind |-> "output", of |-> i]

\* A promise of requests: pending, fulfilled with a value, or rejected.
Pending == [promise |-> "pending", value |-> [kind |-> "none"]]
Fulfilled(v) == [promise |-> "fulfilled", value |-> v]
Rejected == [promise |-> "rejected", value |-> [kind |-> "error"]]
Null == [kind |-> "null"]

\* data.failOnError ?? true
FailOnErrorEffective == failOnError # "false"

\* The value requests[i] settles to, by the promise chain built around
\* processAsync(item).
ChainResult(i, outcome) ==
    IF impl = "utils"
    THEN CASE outcome = "ok"    -> Fulfilled([kind |-> "result", state |-> "valid",
                                              inputItem |-> i, outputItem |-> OutputOf(i)])
           [] outcome = "404"   -> Fulfilled([kind |-> "result", state |-> "404", inputItem |-> i])
           [] outcome = "throw" -> Fulfilled([kind |-> "result", state |-> "error",
                                              inputItem |-> i, error |-> "err"])
    ELSE CASE outcome = "ok"    -> Fulfilled(OutputOf(i))
           [] outcome = "throw" -> IF FailOnErrorEffective THEN Rejected ELSE Fulfilled(Null)

\* processedItemsCount after item i settled with the outcome: utils counts in
\* .finally(), the helper only in the .then() of a success.
CountAfter(outcome) ==
    IF impl = "utils" \/ outcome = "ok"
    THEN processedItemsCount + 1
    ELSE processedItemsCount

\* getPercentagePrefix: Math.round((processedItems / totalCount) * 100)
getPercentagePrefix(processedItems, totalCount) ==
    (200 * processedItems + totalCount) \div (2 * totalCount)

\* The prefixes logged so far once item i settled with the outcome: the
\* .then() of a success logs the prefix of processedItemsCount, the handlers
\* of an error log no prefix.
PrefixesAfter(outcome) ==
    IF outcome = "throw"
    THEN prefixes
    ELSE Append(prefixes, getPercentagePrefix(processedItemsCount, nItems))

\* Whether an error is logged for the outcome.
LogsError(outcome) ==
    outcome = "throw" /\ (impl = "utils" \/ ~FailOnErrorEffective)

\* p-limit: the test made before a queued function is started from the
\* microtask that limit(fn) schedules.
CanStartIgnoringLimit(active, q) == q # <<>>
CanStart(active, q) == active < parallelLimit /\ q # <<>>

\* p-limit after the N synchronous limit(fn) calls of items.map: each call
\* queued its function, and each scheduled microtask starts the head of the
\* queue while CanStart allows. pl = [active, q, st].
RECURSIVE DrainMicrotasks(_, _)
DrainMicrotasks(pl, n) ==
    IF n = 0 \/ ~CanStart(pl.active, pl.q)
    THEN pl
    ELSE DrainMicrotasks([active |-> pl.active + 1,
                          q      |-> Tail(pl.q),
                          st     |-> [pl.st EXCEPT ![Head(pl.q)] = "running"]],
                         n - 1)

\* p-limit's next(), run when a started function has settled (fulfilled or
\* rejected alike): activeCount--, and the head of the queue, if any, starts.
PLimitNext(pl, i) ==
    LET st1 == [pl.st EXCEPT ![i] = "settled"] IN
    IF pl.q # <<>>
    THEN [active |-> pl.active,
          q      |-> Tail(pl.q),
          st     |-> [st1 EXCEPT ![Head(pl.q)] = "running"]]
    ELSE [active |-> pl.active - 1, q |-> pl.q, st |-> st1]

RECURSIVE SeqOfItems(_)
SeqOfItems(n) == IF n = 0 THEN <<>> ELSE Append(SeqOfItems(n - 1), n)

RECURSIVE WithoutNull(_)
WithoutNull(s) ==
    IF s = <<>> THEN <<>>
    ELSE IF Head(s) = Null THEN WithoutNull(Tail(s))
    ELSE <<Head(s)>> \o WithoutNull(Tail(s))

\* What the call returns once Promise.all(requests) has fulfilled.
ReturnValue(req) ==
    LET all == [k \in 1..nItems |-> req[k].value] IN
    IF impl = "utils" THEN all ELSE WithoutNull(all)

RetryIdle ==
    /\ responses = <<>>
    /\ retryState = "idle"

NoSignal == cancelSignal = FALSE

NoStage == pipelineStage = "none"

ExportIdle ==
    /\ sourceItems = <<>>
    /\ exportPc = "idle"
    /\ exportCalls = <<>>
    /\ exportVersions = <<>>
    /\ exportErrors = <<>>
    /\ exportItems = <<>>

ClosureIdle ==
    /\ referenceKind = "none"
    /\ extractedIds = {}
    /\ preparedIds = {}
    /\ referencedIds = <<>>
    /\ statesById = <<>>

MapIdle ==
    /\ mapItems = <<>>
    /\ mappedItems = <<>>
    /\ mapErrorLog = <<>>
    /\ mapPc = "idle"

MigrateIdle ==
    /\ mapMigrationData = "none"
    /\ migratePc = "idle"
    /\ migrateLog = <<>>

AssetsIdle ==
    /\ migrationAssets = <<>>
    /\ assetHarness = "utils"
    /\ assetsToEdit = <<>>
    /\ assetsToUpload = <<>>
    /\ assetPhase = <<>>
    /\ assetCalls = <<>>
    /\ assetPc = "idle"

RoundTripIdle ==
    /\ sourceElement = <<>>
    /\ migrationElement = <<>>
    /\ targetElement = <<>>
    /\ reExportedElement = <<>>
    /\ roundTripPc = "idle"

RichTextIdle ==
    /\ richTextAnchors = <<>>
    /\ itemCodename = "none"
    /\ replaceInvalidLinks = FALSE
    /\ itemImported = FALSE
    /\ exportedHtml = <<>>
    /\ importedHtml = <<>>
    /\ richTextWarnings = <<>>
    /\ richTextPc = "idle"

FurtherIdle == AssetsIdle /\ RoundTripIdle /\ RichTextIdle

RestIdle == ClosureIdle /\ MapIdle /\ MigrateIdle /\ FurtherIdle

LaterIdle == RetryIdle /\ NoSignal /\ NoStage /\ ExportIdle /\ RestIdle

ContentItemsIdle ==
    /\ migrationItems = <<>>
    /\ itemStates = <<>>
    /\ createdContentItems = <<>>
    /\ contentItemCalls = <<>>
    /\ itemPc = "idle"

ImportIdle ==
    /\ workflow = [codename |-> "none", steps |-> <<>>, to |-> <<>>]
    /\ versions = <<>>
    /\ preparedContentItem = FALSE
    /\ observed = [draftLanguageVariant |-> [exists |-> FALSE],
                   publishedLanguageVariant |-> [exists |-> FALSE]]
    /\ target = [pub |-> FALSE, draft |-> "none", schedUnpub |-> FALSE]
    /\ targetWorkflow = "none"
    /\ pc = 0
    /\ variantStep = "none"
    /\ calls = <<>>
    /\ logs = {}
    /\ result = "idle"
    /\ error = "none"

InitHarness ==
    /\ ImportIdle
    /\ ContentItemsIdle
    /\ LaterIdle
    /\ impl \in {"utils", "helper"}
    /\ nItems \in 0..MaxItems
    /\ parallelLimit \in 1..MaxLimit
    /\ failOnError \in {"true", "false", "undefined"}
    /\ (impl = "utils" => failOnError = "undefined")
    /\ status = [i \in 1..nItems |-> "queued"]
    /\ queue = <<>>
    /\ activeCount = 0
    /\ requests = [i \in 1..nItems |-> Pending]
    /\ processedItemsCount = 1
    /\ errorLog = {}
    /\ prefixes = <<>>
    /\ call = "idle"
    /\ resultItems = <<>>

\* processItemsAsync is called: the empty input returns at once; otherwise
\* every item is handed to limit() and the first parallelLimit of them start.
ProcessItemsHarness ==
    /\ call = "idle"
    /\ IF nItems = 0
       THEN /\ call' = "returned"
            /\ UNCHANGED <<status, queue, activeCount, prefixes>>
       ELSE LET pl == DrainMicrotasks([active |-> 0, q |-> SeqOfItems(nItems), st |-> status],
                                      nItems)
            IN /\ call' = "pending"
               /\ prefixes' = <<getPercentagePrefix(0, nItems)>>
               /\ status' = pl.st
               /\ queue' = pl.q
               /\ activeCount' = pl.active
    /\ UNCHANGED <<impl, nItems, parallelLimit, failOnError, requests,
                   processedItemsCount, errorLog, resultItems>>

ProcessItemsAsync ==
    ProcessItemsHarness /\ UNCHANGED importVars /\ UNCHANGED contentItemVars /\ UNCHANGED laterVars

\* processAsync(item i) settles: the chain around it settles requests[i],
\* p-limit starts the next queued item, and Promise.all(requests) rejects on
\* the first rejection or fulfils with the last fulfilment.
SettleHarness(i, outcome) ==
    /\ status[i] = "running"
    /\ LET pl  == PLimitNext([active |-> activeCount, q |-> queue, st |-> status], i)
           req == [requests EXCEPT ![i] = ChainResult(i, outcome)]
       IN /\ status' = pl.st
          /\ queue' = pl.q
          /\ activeCount' = pl.active
          /\ requests' = req
          /\ processedItemsCount' = CountAfter(outcome)
          /\ prefixes' = PrefixesAfter(outcome)
          /\ errorLog' = IF LogsError(outcome) THEN errorLog \cup {i} ELSE errorLog
          /\ IF call = "pending" /\ req[i].promise = "rejected"
             THEN call' = "threw" /\ UNCHANGED resultItems
             ELSE IF call = "pending" /\ \A k \in 1..nItems : req[k].promise = "fulfilled"
             THEN call' = "returned" /\ resultItems' = ReturnValue(req)
             ELSE UNCHANGED <<call, resultItems>>
    /\ UNCHANGED <<impl, nItems, parallelLimit, failOnError>>

Settle(i, outcome) ==
    SettleHarness(i, outcome) /\ UNCHANGED importVars /\ UNCHANGED contentItemVars /\ UNCHANGED laterVars

NextHarness ==
    \/ ProcessItemsAsync
    \/ \E i \in 1..nItems : \E outcome \in Outcomes(i) : Settle(i, outcome)

\* Every started processAsync settles and the event loop runs what is ready.
SpecHarness == InitHarness /\ [][NextHarness]_vars /\ WF_vars(NextHarness)

Running == {i \in 1..nItems : status[i] = "running"}

\* failOnError is in effect for the call: only the helper has the option, and
\* it reads it as data.failOnError ?? true.
OptedIn == impl = "helper" /\ FailOnErrorEffective

AnyRejected == \E i \in 1..nItems : requests[i].promise = "rejected"

\* The items whose processAsync threw, as far as the settled promises tell.
Threw(i) ==
    \/ requests[i].promise = "rejected"
    \/ requests[i].value = Null
    \/ (requests[i].value.kind = "result" /\ requests[i].value.state = "error")

(***************************************************************************)
(* C1. Without failOnError in effect an error of processItem is recorded   *)
(* for its item, the remaining items are still processed and the call      *)
(* returns normally; with failOnError in effect the first error reaches    *)
(* the caller and cancels the batch: no item that had not started by then  *)
(* is started afterwards.                                                  *)
(***************************************************************************)
C1_Recorded ==
    ~OptedIn =>
        /\ call # "threw"
        /\ \A i \in 1..nItems : Threw(i) => i \in errorLog
        /\ (call = "returned" => \A i \in 1..nItems : status[i] = "settled")

C1_Propagates == OptedIn /\ AnyRejected => call = "threw"

C1_NoStartAfterError ==
    OptedIn /\ AnyRejected =>
        \A j \in 1..nItems : status[j] = "queued" => status'[j] = "queued"

C1_ErrorHandling ==
    /\ [](C1_Recorded /\ C1_Propagates)
    /\ [][C1_NoStartAfterError]_vars

(***************************************************************************)
(* C2. The call returns exactly one result per input item, at the position *)
(* of the input item, each one of valid(output), 404 or error(err),        *)
(* whatever the completion order and the parallel limit, also when items   *)
(* fail.                                                                   *)
(***************************************************************************)
\* r is the result of item i: a result slot of i, or (the helper returns bare
\* outputs) the output of i, read as valid(output).
IsResultOf(r, i) ==
    \/ /\ r.kind = "result"
       /\ r.state \in {"valid", "404", "error"}
       /\ r.inputItem = i
       /\ (r.state = "valid" => r.outputItem = OutputOf(i))
    \/ r = OutputOf(i)

C2_OneResultPerItemInOrder ==
    call = "returned" =>
        /\ Len(resultItems) = nItems
        /\ \A i \in 1..nItems : IsResultOf(resultItems[i], i)

(***************************************************************************)
(* C3. At every moment at most parallelLimit invocations of processItem    *)
(* have started and not finished, and every input item is eventually       *)
(* started.                                                                *)
(***************************************************************************)
C3_BoundedAndAllStarted ==
    /\ [](Cardinality(Running) <= parallelLimit)
    /\ <>[](\A i \in 1..nItems : status[i] # "queued")

\* The limit binds: as many items run as the limit allows, one has finished
\* and another still waits in the queue.
C3_Witness ==
    /\ Cardinality(Running) = parallelLimit
    /\ queue # <<>>
    /\ \E i \in 1..nItems : status[i] = "settled"

(***************************************************************************)
(* Part II. Import of the language variant of one migration item.          *)
(***************************************************************************)
PublishedStep == "published"
ArchivedStep == "archived"
ScheduledStep == "scheduled"

Range(seq) == {seq[k] : k \in 1..Len(seq)}

\* Workflows of the target environment: the custom steps in their order and
\* the transitions_to of each step.
WfChain ==
    [codename |-> "chain", steps |-> <<"draft", "review">>,
     to |-> [draft |-> <<"review">>, review |-> <<"published">>]]
WfDirect ==
    [codename |-> "direct", steps |-> <<"draft", "review">>,
     to |-> [draft |-> <<"review", "published">>, review |-> <<"published">>]]
WfDiamond ==
    [codename |-> "diamond", steps |-> <<"draft", "review", "legal">>,
     to |-> [draft |-> <<"legal", "review">>, review |-> <<"published">>,
             legal |-> <<"published">>]]
WfNoPath ==
    [codename |-> "nopath", steps |-> <<"draft", "review">>,
     to |-> [draft |-> <<"review">>, review |-> <<"draft">>]]

Workflows == {WfChain, WfDirect, WfDiamond, WfNoPath}

FirstStep(wf) == wf.steps[1]

TransitionsTo(wf, step) == IF step \in DOMAIN wf.to THEN wf.to[step] ELSE <<>>

WorkflowNodes(wf) == wf.steps \o <<PublishedStep, ArchivedStep>>

\* workflowHelper.findShortestPathBetweenSteps: breadth-first over
\* transitions_to, neighbours taken in the order of wf.steps; the path holds
\* both ends, and is empty when endStep cannot be reached.
RECURSIVE Bfs(_, _, _, _)
Bfs(wf, frontier, visited, endStep) ==
    IF frontier = <<>> THEN <<>>
    ELSE LET path == Head(frontier)
             last == path[Len(path)]
         IN IF last = endStep THEN path
            ELSE LET next == SelectSeq(WorkflowNodes(wf),
                                       LAMBDA n : /\ n \in Range(TransitionsTo(wf, last))
                                                  /\ n \notin visited)
                     more == [k \in 1..Len(next) |-> Append(path, next[k])]
                 IN Bfs(wf, Tail(frontier) \o more, visited \cup Range(next), endStep)

findShortestPathBetweenSteps(wf, startStep, endStep) ==
    Bfs(wf, <<<<startStep>>>>, {startStep}, endStep)

\* steps[steps.length - 2], "none" standing for undefined
getPreviousToPublishStep(wf, step, publishStep) ==
    LET steps == findShortestPathBetweenSteps(wf, step, publishStep)
    IN IF Len(steps) >= 2 THEN steps[Len(steps) - 1] ELSE "none"

\* A MigrationItemVersion: its workflow step and whether the fields of its
\* schedule are set. A version carries the schedule its step allows: a
\* publish time at the scheduled step, an unpublish time at the published
\* step or along with a publish time. The export maps each display timezone
\* on its own (?? undefined), so a time can come without its timezone.
MigrationItemVersion(st, pt, ptz, ut, utz) ==
    [step |-> st, publish_time |-> pt, publish_display_timezone |-> ptz,
     unpublish_time |-> ut, unpublish_display_timezone |-> utz]

NoVersion == MigrationItemVersion("none", FALSE, FALSE, FALSE, FALSE)

VersionsOf(wf) ==
    {MigrationItemVersion(st, FALSE, FALSE, FALSE, FALSE) :
        st \in Range(wf.steps) \cup {ArchivedStep, PublishedStep}}
    \cup {MigrationItemVersion(PublishedStep, FALSE, FALSE, TRUE, utz) : utz \in BOOLEAN}
    \cup {MigrationItemVersion(ScheduledStep, TRUE, ptz, FALSE, FALSE) : ptz \in BOOLEAN}
    \cup {MigrationItemVersion(ScheduledStep, TRUE, TRUE, TRUE, TRUE)}

SeqsUpTo(S, n) == UNION {[1..k -> S] : k \in 0..n}

\* The language variant in the target: whether a published version exists,
\* the step of the version being worked on ("none": there is none), and
\* whether an unpublish is scheduled.
Absent == [pub |-> FALSE, draft |-> "none", schedUnpub |-> FALSE]

TargetStates(wf) ==
    {t \in [pub : BOOLEAN,
            draft : {"none"} \cup Range(wf.steps) \cup {ArchivedStep, ScheduledStep},
            schedUnpub : BOOLEAN] :
        /\ (t.schedUnpub => t.pub)
        /\ (t.pub => t.draft \in {"none", FirstStep(wf), ScheduledStep})}

\* What the import context holds of one variant of the target.
NoVariant == [exists |-> FALSE, workflowState |-> "none", scheduledState |-> "none"]

ScheduledStates == {"none", "scheduledPublish", "scheduledUnpublish"}

\* The targetVariantState of a target: the version being worked on is the
\* draftLanguageVariant, the published version the publishedLanguageVariant.
\* The scheduledState the endpoint reports can be stale or inverted, so the
\* one given need not be the true one.
ObservedOf(t, draftSched, pubSched) ==
    [draftLanguageVariant |->
        IF t.draft = "none" THEN NoVariant
        ELSE [exists |-> TRUE,
              workflowState |-> IF t.draft = ArchivedStep THEN "archived" ELSE "draft",
              scheduledState |-> draftSched],
     publishedLanguageVariant |->
        IF ~t.pub THEN NoVariant
        ELSE [exists |-> TRUE, workflowState |-> "published", scheduledState |-> pubSched]]

TrueDraftSched(t) == IF t.draft = ScheduledStep THEN "scheduledPublish" ELSE "none"
TruePubSched(t) == IF t.schedUnpub THEN "scheduledUnpublish" ELSE "none"

\* categorizeVersions
isPublishedWorkflowStepNever(stepCodename, wf) == FALSE
isPublishedWorkflowStep(stepCodename, wf) == stepCodename = PublishedStep

publishedVersions == SelectSeq(versions, LAMBDA v : isPublishedWorkflowStep(v.step, workflow))
draftVersions == SelectSeq(versions, LAMBDA v : ~isPublishedWorkflowStep(v.step, workflow))

CategorizeThrows == Len(publishedVersions) > 1 \/ Len(draftVersions) > 1

publishedVersion == IF publishedVersions # <<>> THEN publishedVersions[1] ELSE NoVersion
draftVersion == IF draftVersions # <<>> THEN draftVersions[1] ELSE NoVersion

\* data.targetVariantState.draftLanguageVariant ?? ...publishedLanguageVariant
languageVariantToPrepare ==
    IF observed.draftLanguageVariant.exists
    THEN observed.draftLanguageVariant
    ELSE observed.publishedLanguageVariant

\* workflowHelper: the kind of a step codename
isPublishedStepByCodename(stepCodename) == stepCodename = PublishedStep
isArchivedStepByCodename(stepCodename) == stepCodename = ArchivedStep
isScheduledStepByCodename(stepCodename) == stepCodename = ScheduledStep

\* The places of importVersionAsync where a call can be awaited, in order:
\* createNewVersion, the upsert, the workflow driver (to the step before
\* publish and publish, or archive, or to the named step), the scheduling.
VersionPlacesDriverFirst ==
    <<"createNewVersion", "toPreviousStep", "publish", "archive", "toStep",
      "upsert", "scheduleUnpublish", "schedulePublish">>
VersionPlaces ==
    <<"createNewVersion", "upsert", "toPreviousStep", "publish", "archive",
      "toStep", "scheduleUnpublish", "schedulePublish">>

PlacesOf(stage) == [k \in 1..Len(VersionPlaces) |-> [stage |-> stage, at |-> VersionPlaces[k]]]

\* The order importLanguageVariantAsync goes through them: the preparation
\* of the target, the published version, the cleanup, the draft version.
Program ==
    <<[stage |-> "prepare", at |-> "cancelScheduled"],
      [stage |-> "prepare", at |-> "workflowState"]>>
    \o PlacesOf("published")
    \o <<[stage |-> "cleanup", at |-> "unpublish"],
         [stage |-> "cleanup", at |-> "moveToDraft"]>>
    \o PlacesOf("draft")

VersionAtSwapped(stage) ==
    IF stage = "published" THEN draftVersion
    ELSE IF stage = "draft" THEN publishedVersion
    ELSE NoVersion
VersionAt(stage) ==
    IF stage = "published" THEN publishedVersion
    ELSE IF stage = "draft" THEN draftVersion
    ELSE NoVersion

\* prepareTargetEnvironmentVariantForImportAsync: a scheduled state is
\* cancelled first (the match of cancelScheduledStateAsync has no case for
\* 'none') ...
cancelsSchedule(lv) ==
    lv.exists /\ lv.scheduledState \in {"scheduledPublish", "scheduledUnpublish"}

\* ... then a published variant gets a new version, an archived one is moved
\* to the first step.
preparesWorkflowStateNotArchived(lv) == lv.exists /\ lv.workflowState = "published"
preparesWorkflowStateNotPublished(lv) == lv.exists /\ lv.workflowState = "archived"
preparesWorkflowState(lv) ==
    lv.exists /\ lv.workflowState \in {"published", "archived"}

\* "if target env contains published version & imported version not"
cleansUpPublishedWhateverImported == observed.publishedLanguageVariant.exists
cleansUpPublished ==
    observed.publishedLanguageVariant.exists /\ publishedVersion = NoVersion

\* createNewVersion: publishedLanguageVariant ? true : false (the published
\* version has no such flag)
createNewVersionNever(stage) == FALSE
createNewVersionFlag(stage) == stage = "draft" /\ publishedVersion # NoVersion

\* setWorkflowOfLanguageVariantAsync, by the kind of the version's step
movesToPreviousStepNever(v, vstep) == FALSE
movesToPreviousStep(v, vstep) ==
    /\ isPublishedStepByCodename(v.step)
    /\ getPreviousToPublishStep(workflow, vstep, PublishedStep) # "none"
publishes(v) == isPublishedStepByCodename(v.step)
archives(v) == ~isPublishedStepByCodename(v.step) /\ isArchivedStepByCodename(v.step)
changesToStepAlsoScheduled(v) ==
    /\ ~isPublishedStepByCodename(v.step)
    /\ ~isArchivedStepByCodename(v.step)
changesToStep(v) ==
    /\ ~isPublishedStepByCodename(v.step)
    /\ ~isArchivedStepByCodename(v.step)
    /\ ~isScheduledStepByCodename(v.step)

\* setScheduledStateOfLanguageVariantAsync
schedulesUnpublish(v) == v.unpublish_time /\ v.unpublish_display_timezone
schedulesPublish(v) == v.publish_time /\ v.publish_display_timezone

\* Whether the code issues the call of a place, vstep being the step of the
\* variant the upsert returned.
Applicable(place, vstep) ==
    LET v  == VersionAt(place.stage)
        lv == languageVariantToPrepare
    IN CASE place.stage = "prepare" /\ place.at = "cancelScheduled" -> cancelsSchedule(lv)
         [] place.stage = "prepare" /\ place.at = "workflowState" -> preparesWorkflowState(lv)
         [] place.stage = "cleanup" -> cleansUpPublished
         [] OTHER ->
                /\ v # NoVersion
                /\ CASE place.at = "createNewVersion" -> createNewVersionFlag(place.stage)
                     [] place.at = "upsert" -> TRUE
                     [] place.at = "toPreviousStep" -> movesToPreviousStep(v, vstep)
                     [] place.at = "publish" -> publishes(v)
                     [] place.at = "archive" -> archives(v)
                     [] place.at = "toStep" -> changesToStep(v)
                     [] place.at = "scheduleUnpublish" -> schedulesUnpublish(v)
                     [] place.at = "schedulePublish" -> schedulesPublish(v)

\* A call that names a step names it in the migration item's workflow.
ApiCall(op, step, version) ==
    [op |-> op, step |-> step, version |-> version, outcome |-> "pending",
     workflow |-> IF step = "none" THEN "none" ELSE workflow.codename]

\* The call issued at a place.
CallOf(place, vstep) ==
    LET v  == VersionAt(place.stage)
        lv == languageVariantToPrepare
    IN CASE place.stage = "prepare" /\ place.at = "cancelScheduled" ->
                IF lv.scheduledState = "scheduledPublish"
                THEN ApiCall("cancelScheduledPublish", "none", NoVersion)
                ELSE ApiCall("cancelScheduledUnpublish", "none", NoVersion)
         [] place.stage = "prepare" /\ place.at = "workflowState" ->
                IF lv.workflowState = "published"
                THEN ApiCall("createNewVersion", "none", NoVersion)
                ELSE ApiCall("changeWorkflow", FirstStep(workflow), NoVersion)
         [] place.stage = "cleanup" /\ place.at = "unpublish" ->
                ApiCall("unpublish", "none", NoVersion)
         [] place.stage = "cleanup" /\ place.at = "moveToDraft" ->
                ApiCall("changeWorkflow", FirstStep(workflow), NoVersion)
         [] place.at = "createNewVersion" -> ApiCall("createNewVersion", "none", v)
         [] place.at = "upsert" -> ApiCall("upsert", FirstStep(workflow), v)
         [] place.at = "toPreviousStep" ->
                ApiCall("changeWorkflow",
                        getPreviousToPublishStep(workflow, vstep, PublishedStep), v)
         [] place.at = "publish" -> ApiCall("publish", "none", v)
         [] place.at = "archive" -> ApiCall("changeWorkflow", ArchivedStep, v)
         [] place.at = "toStep" -> ApiCall("changeWorkflow", v.step, v)
         [] place.at = "scheduleUnpublish" -> ApiCall("scheduleUnpublish", "none", v)
         [] place.at = "schedulePublish" -> ApiCall("schedulePublish", "none", v)

\* The first place from `from` on whose call is issued; past the end of the
\* program when there is none.
NextPlace(from, vstep) ==
    LET S == {k \in from..Len(Program) : Applicable(Program[k], vstep)}
    IN IF S = {} THEN Len(Program) + 1
       ELSE CHOOSE k \in S : \A j \in S : k <= j

\* ---- the management API, for one language variant ----
CanPublishFrom(t) ==
    /\ t.draft \notin {"none", ArchivedStep, ScheduledStep}
    /\ PublishedStep \in Range(TransitionsTo(workflow, t.draft))

ApiAccepts(c, t) ==
    CASE c.op = "upsert" ->
            /\ ~(t.pub /\ t.draft = "none")
            /\ t.draft \notin {ArchivedStep, ScheduledStep}
      [] c.op = "createNewVersion" -> t.pub /\ t.draft = "none"
      [] c.op = "changeWorkflow" -> t.draft \notin {"none", ScheduledStep}
      [] c.op = "publish" -> CanPublishFrom(t)
      [] c.op = "schedulePublish" -> CanPublishFrom(t)
      [] c.op = "unpublish" -> t.pub
      [] c.op = "scheduleUnpublish" -> t.pub /\ t.draft = "none"
      [] c.op = "cancelScheduledPublish" -> t.draft = ScheduledStep
      [] c.op = "cancelScheduledUnpublish" -> t.pub /\ t.schedUnpub

ApiEffect(c, t) ==
    CASE c.op = "upsert" -> [t EXCEPT !.draft = c.step]
      [] c.op = "createNewVersion" -> [t EXCEPT !.draft = FirstStep(workflow)]
      [] c.op = "changeWorkflow" -> [t EXCEPT !.draft = c.step]
      [] c.op = "publish" -> [pub |-> TRUE, draft |-> "none", schedUnpub |-> FALSE]
      [] c.op = "schedulePublish" -> [t EXCEPT !.draft = ScheduledStep]
      [] c.op = "unpublish" ->
            [pub |-> FALSE,
             draft |-> IF t.draft = "none" THEN ArchivedStep ELSE t.draft,
             schedUnpub |-> FALSE]
      [] c.op = "scheduleUnpublish" -> [t EXCEPT !.schedUnpub = TRUE]
      [] c.op = "cancelScheduledPublish" -> [t EXCEPT !.draft = FirstStep(workflow)]
      [] c.op = "cancelScheduledUnpublish" -> [t EXCEPT !.schedUnpub = FALSE]

\* How a call can end: accepted, refused by the API (a bad-publish refusal is
\* the API's validation of the content), or failed otherwise.
ApiOutcomes(c, t) ==
    (IF ApiAccepts(c, t)
     THEN {"ok"} \cup (IF c.op = "publish" THEN {"badPublish"} ELSE {})
     ELSE {"kontentError"})
    \cup {"networkError"}

\* The errors the code catches and logs instead of throwing.
SwallowedNever(place, outcome) == FALSE
Swallowed(place, outcome) ==
    \/ place.at = "publish" /\ outcome = "badPublish"
    \/ place.stage = "cleanup" /\ place.at = "unpublish" /\ outcome = "kontentError"

LogTypeOf(place) == IF place.at = "publish" THEN "publishError" ELSE "unpublish"

\* The code runs on to the next call it awaits, or to its end.
Proceed(from, vstep, issued) ==
    LET n == NextPlace(from, vstep)
    IN /\ pc' = n
       /\ UNCHANGED error
       /\ IF n > Len(Program)
          THEN result' = "done" /\ calls' = issued
          ELSE result' = "running" /\ calls' = Append(issued, CallOf(Program[n], vstep))

HarnessIdle ==
    /\ impl = "utils"
    /\ nItems = 0
    /\ parallelLimit = 1
    /\ failOnError = "undefined"
    /\ status = <<>>
    /\ queue = <<>>
    /\ activeCount = 0
    /\ requests = <<>>
    /\ processedItemsCount = 1
    /\ errorLog = {}
    /\ prefixes = <<>>
    /\ call = "idle"
    /\ resultItems = <<>>

\* The workflow the variant is in before the import: the item's, or another.
WorkflowsOfTarget(wf) == {wf.codename, "other"}

InitImport ==
    /\ workflow \in Workflows
    /\ versions \in SeqsUpTo(VersionsOf(workflow), MaxVersions)
    /\ preparedContentItem \in BOOLEAN
    /\ target \in TargetStates(workflow)
    /\ targetWorkflow \in IF target = Absent THEN {"none"} ELSE WorkflowsOfTarget(workflow)
    /\ \E ds \in ScheduledStates, ps \in ScheduledStates :
            observed = ObservedOf(target, ds, ps)
    /\ pc = 0
    /\ variantStep = "none"
    /\ calls = <<>>
    /\ logs = {}
    /\ result = "idle"
    /\ error = "none"
    /\ HarnessIdle
    /\ ContentItemsIdle
    /\ LaterIdle

\* processAsync of the item: the prepared content item is looked up
\* (findRequired throws when there is none) and importLanguageVariantAsync is
\* called: the versions are categorized and the code runs to its first call.
MissingContentItemIgnored == FALSE
MissingContentItem == ~preparedContentItem

ImportLanguageVariantAsync ==
    /\ result = "idle"
    /\ IF MissingContentItem
       THEN result' = "failed" /\ error' = "missingContentItem" /\ UNCHANGED <<pc, calls>>
       ELSE IF CategorizeThrows
       THEN result' = "failed" /\ error' = "categorize" /\ UNCHANGED <<pc, calls>>
       ELSE Proceed(1, variantStep, calls)
    /\ UNCHANGED <<workflow, versions, preparedContentItem, observed, target, targetWorkflow, variantStep, logs>>
    /\ UNCHANGED harnessVars
    /\ UNCHANGED contentItemVars /\ UNCHANGED laterVars

\* The awaited call, one of `op`, ends with the outcome: the target changes
\* if the API accepted it, and the code goes on or throws.
ApiResponds(op, outcome) ==
    /\ result = "running"
    /\ LET place == Program[pc]
           c     == calls[Len(calls)]
       IN /\ c.op = op
          /\ outcome \in ApiOutcomes(c, target)
          /\ LET t        == IF outcome = "ok" THEN ApiEffect(c, target) ELSE target
                 vstep    == IF op = "upsert" /\ outcome = "ok" THEN t.draft ELSE variantStep
                 answered == [calls EXCEPT ![Len(calls)].outcome = outcome]
             IN /\ target' = t
                /\ targetWorkflow' = IF outcome = "ok" /\ c.workflow # "none"
                                     THEN c.workflow ELSE targetWorkflow
                /\ variantStep' = vstep
                /\ IF outcome = "ok" \/ Swallowed(place, outcome)
                   THEN /\ Proceed(pc + 1, vstep, answered)
                        /\ logs' = IF outcome = "ok" THEN logs
                                   ELSE logs \cup {[type |-> LogTypeOf(place), at |-> Len(calls)]}
                   ELSE /\ result' = "failed"
                        /\ error' = outcome
                        /\ calls' = answered
                        /\ UNCHANGED <<pc, logs>>
    /\ UNCHANGED <<workflow, versions, preparedContentItem, observed>>
    /\ UNCHANGED harnessVars
    /\ UNCHANGED contentItemVars /\ UNCHANGED laterVars

ApiOutcomeKinds == {"ok", "badPublish", "kontentError", "networkError"}

UpsertLanguageVariant == \E o \in ApiOutcomeKinds : ApiResponds("upsert", o)
CreateNewVersion == \E o \in ApiOutcomeKinds : ApiResponds("createNewVersion", o)
ChangeWorkflow == \E o \in ApiOutcomeKinds : ApiResponds("changeWorkflow", o)
Publish == \E o \in ApiOutcomeKinds : ApiResponds("publish", o)
SchedulePublish == \E o \in ApiOutcomeKinds : ApiResponds("schedulePublish", o)
Unpublish == \E o \in ApiOutcomeKinds : ApiResponds("unpublish", o)
ScheduleUnpublish == \E o \in ApiOutcomeKinds : ApiResponds("scheduleUnpublish", o)
CancelScheduledPublish == \E o \in ApiOutcomeKinds : ApiResponds("cancelScheduledPublish", o)
CancelScheduledUnpublish == \E o \in ApiOutcomeKinds : ApiResponds("cancelScheduledUnpublish", o)

NextImport ==
    \/ ImportLanguageVariantAsync
    \/ UpsertLanguageVariant
    \/ CreateNewVersion
    \/ ChangeWorkflow
    \/ Publish
    \/ SchedulePublish
    \/ Unpublish
    \/ ScheduleUnpublish
    \/ CancelScheduledPublish
    \/ CancelScheduledUnpublish

Spec == InitImport /\ [][NextImport]_vars

(***************************************************************************)
(* Part III. The run of the language variant importer: importAsync hands   *)
(* the migration items to processItemsAsync with parallelLimit 1 and no    *)
(* failOnError, and processAsync of an item is importLanguageVariantAsync. *)
(***************************************************************************)
\* The migration items of a run: versions at the step "review" and at the
\* published step, imported into a target that has no variant of the item.
RunVersions ==
    {MigrationItemVersion(st, FALSE, FALSE, FALSE, FALSE) : st \in {"review", PublishedStep}}

\* processAsync(item) is about to be called for a migration item.
FreshItem ==
    /\ workflow' = WfChain
    /\ versions' \in SeqsUpTo(RunVersions, MaxVersions)
    /\ preparedContentItem' \in BOOLEAN
    /\ target' = Absent
    /\ targetWorkflow' = "none"
    /\ observed' = ObservedOf(Absent, "none", "none")
    /\ pc' = 0
    /\ variantStep' = "none"
    /\ calls' = <<>>
    /\ logs' = {}
    /\ result' = "idle"
    /\ error' = "none"

InitRun ==
    /\ impl = "utils"
    /\ nItems \in 1..MaxItems
    /\ parallelLimit = 1
    /\ failOnError = "undefined"
    /\ status = [i \in 1..nItems |-> "queued"]
    /\ queue = <<>>
    /\ activeCount = 0
    /\ requests = [i \in 1..nItems |-> Pending]
    /\ processedItemsCount = 1
    /\ errorLog = {}
    /\ prefixes = <<>>
    /\ call = "idle"
    /\ resultItems = <<>>
    /\ workflow = WfChain
    /\ versions \in SeqsUpTo(RunVersions, MaxVersions)
    /\ preparedContentItem \in BOOLEAN
    /\ target = Absent
    /\ targetWorkflow = "none"
    /\ observed = ObservedOf(Absent, "none", "none")
    /\ pc = 0
    /\ variantStep = "none"
    /\ calls = <<>>
    /\ logs = {}
    /\ result = "idle"
    /\ error = "none"
    /\ ContentItemsIdle
    /\ LaterIdle

\* importAsync: the call of processItemsAsync
ImportAsync == ProcessItemsAsync

\* processAsync of the running item: importLanguageVariantAsync is called
ItemImportStarts ==
    /\ call = "pending"
    /\ Running # {}
    /\ ImportLanguageVariantAsync

\* ... and one of its calls ends
ItemCallEnds ==
    /\ call = "pending"
    /\ \E op \in {"upsert", "createNewVersion", "changeWorkflow", "publish"} :
        \E o \in ApiOutcomeKinds : ApiResponds(op, o)

\* processAsync of the running item has returned or thrown: the harness
\* settles the item and p-limit starts the next one.
ItemSettles ==
    /\ result \in {"done", "failed"}
    /\ \E i \in Running :
        /\ SettleHarness(i, IF result = "done" THEN "ok" ELSE "throw")
        /\ IF queue # <<>> THEN FreshItem ELSE UNCHANGED importVars
    /\ UNCHANGED contentItemVars /\ UNCHANGED laterVars

NextRun == ImportAsync \/ ItemImportStarts \/ ItemCallEnds \/ ItemSettles

SpecRun == InitRun /\ [][NextRun]_vars /\ WF_vars(NextRun)

(***************************************************************************)
(* Part IV. The content items importer: importAsync hands the migration    *)
(* items to processItemsAsync with parallelLimit 1 and data.failOnError,   *)
(* and processAsync of an item is importContentItemAsync.                  *)
(***************************************************************************)
Codenames == {"about", "home"}

\* system.name and system.collection.codename of a migration item
ItemShapes == {<<"n1", "c1">>, <<"n2", "c1">>, <<"n1", "c2">>}

MigrationItems ==
    {[codename |-> c, name |-> sh[1], collection |-> sh[2], type |-> "page"] :
        c \in Codenames, sh \in ItemShapes}

\* The content item of a codename as the target holds it, its collection
\* resolved to the codename.
NoItem == [codename |-> "none", name |-> "none", collection |-> "none"]
TargetItem(c) == [codename |-> c, name |-> "n1", collection |-> "c1"]

ExternalIdToUse(c) == <<"externalId", c>>

\* importContext.getItemStateInTargetEnvironment, by codename
ItemStateChoices(c) ==
    {[state |-> "exists", item |-> TargetItem(c), externalIdToUse |-> ExternalIdToUse(c)],
     [state |-> "doesNotExists", item |-> NoItem, externalIdToUse |-> ExternalIdToUse(c)]}

shouldUpdateNever(migrationContentItem, contentItem) == FALSE
shouldUpdateContentItem(migrationContentItem, contentItem) ==
    \/ migrationContentItem.name # contentItem.name
    \/ migrationContentItem.collection # contentItem.collection

AddContentItemDataOwnExternalId(m, itemStateInTargetEnv) ==
    [name |-> m.name, type |-> m.type, external_id |-> <<"externalId", m.name>>,
     codename |-> m.codename, collection |-> m.collection]
AddContentItemData(m, itemStateInTargetEnv) ==
    [name |-> m.name, type |-> m.type, external_id |-> itemStateInTargetEnv.externalIdToUse,
     codename |-> m.codename, collection |-> m.collection]

UpsertContentItemData(m) == [name |-> m.name, collection |-> m.collection]

ContentItemCall(op, i, data) ==
    [op |-> op, of |-> i, codename |-> migrationItems[i].codename, data |-> data,
     outcome |-> "pending"]

\* createdContentItems.has(codename)
createdBeforeIgnored(codename) == FALSE
createdBefore(codename) == codename \in DOMAIN createdContentItems

InitContentItems ==
    /\ migrationItems \in SeqsUpTo(MigrationItems, MaxItems)
    /\ itemStates \in [Codenames -> UNION {ItemStateChoices(c) : c \in Codenames}]
    /\ \A c \in Codenames : itemStates[c] \in ItemStateChoices(c)
    /\ createdContentItems = <<>>
    /\ contentItemCalls = <<>>
    /\ itemPc = "idle"
    /\ impl = "helper"
    /\ nItems = Len(migrationItems)
    /\ parallelLimit = 1
    /\ failOnError \in {"true", "false"}
    /\ status = [i \in 1..nItems |-> "queued"]
    /\ queue = <<>>
    /\ activeCount = 0
    /\ requests = [i \in 1..nItems |-> Pending]
    /\ processedItemsCount = 1
    /\ errorLog = {}
    /\ prefixes = <<>>
    /\ call = "idle"
    /\ resultItems = <<>>
    /\ ImportIdle
    /\ LaterIdle

\* importAsync: the call of processItemsAsync; the first item starts
ContentItemsImportAsync ==
    /\ ProcessItemsHarness
    /\ itemPc' = IF nItems = 0 THEN "idle" ELSE "start"
    /\ UNCHANGED <<migrationItems, itemStates, createdContentItems, contentItemCalls>>
    /\ UNCHANGED importVars /\ UNCHANGED laterVars

\* importContentItemAsync of the running item, up to the call it awaits or
\* to its return: prepareContentItemAsync, then the check for an update.
ImportContentItemAsync ==
    /\ itemPc = "start"
    /\ \E i \in Running :
        LET m == migrationItems[i]
            itemStateInTargetEnv == itemStates[m.codename]
        IN IF itemStateInTargetEnv.state = "exists" /\ itemStateInTargetEnv.item # NoItem
           THEN IF shouldUpdateContentItem(m, itemStateInTargetEnv.item)
                THEN /\ contentItemCalls' = Append(contentItemCalls,
                            ContentItemCall("upsertContentItem", i, UpsertContentItemData(m)))
                     /\ itemPc' = "upserting"
                ELSE itemPc' = "returned" /\ UNCHANGED contentItemCalls
           ELSE IF createdBefore(m.codename)
           THEN itemPc' = "returned" /\ UNCHANGED contentItemCalls
           ELSE /\ contentItemCalls' = Append(contentItemCalls,
                        ContentItemCall("addContentItem", i,
                                        AddContentItemData(m, itemStateInTargetEnv)))
                /\ itemPc' = "adding"
    /\ UNCHANGED <<migrationItems, itemStates, createdContentItems>>
    /\ UNCHANGED harnessVars
    /\ UNCHANGED importVars /\ UNCHANGED laterVars

\* addContentItem ends: the created item goes to the memo under the codename
\* of the response.
AddContentItemResponds ==
    /\ itemPc = "adding"
    /\ \E outcome \in {"ok", "error"} :
        LET k == Len(contentItemCalls)
            c == contentItemCalls[k]
        IN /\ contentItemCalls' = [contentItemCalls EXCEPT ![k].outcome = outcome]
           /\ IF outcome = "ok"
              THEN /\ createdContentItems' =
                        [x \in DOMAIN createdContentItems \cup {c.data.codename} |->
                            IF x = c.data.codename
                            THEN [codename |-> c.data.codename, name |-> c.data.name,
                                  collection |-> c.data.collection]
                            ELSE createdContentItems[x]]
                   /\ itemPc' = "returned"
              ELSE /\ itemPc' = "threw"
                   /\ UNCHANGED createdContentItems
    /\ UNCHANGED <<migrationItems, itemStates>>
    /\ UNCHANGED harnessVars
    /\ UNCHANGED importVars /\ UNCHANGED laterVars

UpsertContentItemResponds ==
    /\ itemPc = "upserting"
    /\ \E outcome \in {"ok", "error"} :
        /\ contentItemCalls' =
                [contentItemCalls EXCEPT ![Len(contentItemCalls)].outcome = outcome]
        /\ itemPc' = IF outcome = "ok" THEN "returned" ELSE "threw"
    /\ UNCHANGED <<migrationItems, itemStates, createdContentItems>>
    /\ UNCHANGED harnessVars
    /\ UNCHANGED importVars /\ UNCHANGED laterVars

\* processAsync of the running item has returned or thrown: the harness
\* settles the item and p-limit starts the next one.
ContentItemSettles ==
    /\ itemPc \in {"returned", "threw"}
    /\ \E i \in Running : SettleHarness(i, IF itemPc = "returned" THEN "ok" ELSE "throw")
    /\ itemPc' = IF queue # <<>> THEN "start" ELSE "idle"
    /\ UNCHANGED <<migrationItems, itemStates, createdContentItems, contentItemCalls>>
    /\ UNCHANGED importVars /\ UNCHANGED laterVars

NextContentItems ==
    \/ ContentItemsImportAsync
    \/ ImportContentItemAsync
    \/ AddContentItemResponds
    \/ UpsertContentItemResponds
    \/ ContentItemSettles

SpecContentItems == InitContentItems /\ [][NextContentItems]_vars /\ WF_vars(NextContentItems)

(***************************************************************************)
(* Claims about the import of a language variant.                          *)
(***************************************************************************)
CallIndexes == 1..Len(calls)

IsPublishedCall(c) ==
    c.version # NoVersion /\ isPublishedWorkflowStep(c.version.step, workflow)
IsDraftCall(c) ==
    c.version # NoVersion /\ ~isPublishedWorkflowStep(c.version.step, workflow)

RECURSIVE OpsOf(_)
OpsOf(cs) == IF cs = <<>> THEN <<>> ELSE <<Head(cs).op>> \o OpsOf(Tail(cs))

AllOk == \A k \in CallIndexes : calls[k].outcome = "ok"

BadPublishSwallowed == \E l \in logs : l.type = "publishError"

(***************************************************************************)
(* C4. For an item with a published and a draft version, every API call of *)
(* the published version's import is issued and has completed before the   *)
(* first API call of the draft version's import, whatever the order of the *)
(* two versions in versions[].                                             *)
(***************************************************************************)
C4_PublishedBeforeDraft ==
    \A j \in CallIndexes, k \in CallIndexes :
        IsDraftCall(calls[j]) /\ IsPublishedCall(calls[k]) =>
            k < j /\ calls[k].outcome \in {"ok", "badPublish"}

\* The draft version comes first in versions[], and calls of both versions
\* have been issued.
C4_Witness ==
    /\ Len(versions) = 2
    /\ ~isPublishedWorkflowStep(versions[1].step, workflow)
    /\ isPublishedWorkflowStep(versions[2].step, workflow)
    /\ \E j \in CallIndexes : IsDraftCall(calls[j]) /\ calls[j].op = "upsert"
    /\ \E k \in CallIndexes : IsPublishedCall(calls[k]) /\ calls[k].op = "publish"

(***************************************************************************)
(* C5. createNewVersion is issued immediately before the draft version's   *)
(* upsert if and only if a published version of the item was imported in   *)
(* this run. As claimed: a published + draft snapshot imported into an     *)
(* empty target gives the calls upsert, publish, createNewVersion, upsert,  *)
(* change-step(draft step) and ends with the published variant plus a      *)
(* draft at the snapshot's draft step.                                     *)
(***************************************************************************)
C5_NewVersionIffPublishedImported ==
    \A k \in CallIndexes :
        calls[k].op = "upsert" /\ IsDraftCall(calls[k]) =>
            ((k > 1 /\ calls[k - 1].op = "createNewVersion") <=> publishedVersion # NoVersion)

\* The scenario: empty target, a published version and a draft version at a
\* custom step, neither scheduled, every call accepted, the import done.
C5_Scenario ==
    /\ result = "done"
    /\ ~observed.draftLanguageVariant.exists
    /\ ~observed.publishedLanguageVariant.exists
    /\ publishedVersion # NoVersion /\ ~publishedVersion.unpublish_time
    /\ draftVersion # NoVersion /\ draftVersion.step \in Range(workflow.steps)
    /\ AllOk

C5_EndsPublishedPlusDraft ==
    target = [pub |-> TRUE, draft |-> draftVersion.step, schedUnpub |-> FALSE]

C5_AsClaimed ==
    /\ C5_NewVersionIffPublishedImported
    /\ C5_Scenario =>
        /\ OpsOf(calls) = <<"upsert", "publish", "createNewVersion", "upsert", "changeWorkflow">>
        /\ calls[Len(calls)].step = draftVersion.step
        /\ C5_EndsPublishedPlusDraft

\* C5 as amended: before publish the driver moves the variant to the step
\* before publish on the shortest path from the step the upsert left it at,
\* when there is such a step, so the calls are upsert, change-step(step
\* before publish), publish, createNewVersion, upsert, change-step(draft
\* step).
C5_ExpectedOps ==
    IF getPreviousToPublishStep(workflow, FirstStep(workflow), PublishedStep) # "none"
    THEN <<"upsert", "changeWorkflow", "publish", "createNewVersion", "upsert", "changeWorkflow">>
    ELSE <<"upsert", "publish", "createNewVersion", "upsert", "changeWorkflow">>

C5_Amended ==
    /\ C5_NewVersionIffPublishedImported
    /\ C5_Scenario =>
        /\ OpsOf(calls) = C5_ExpectedOps
        /\ calls[2].op = "changeWorkflow" =>
                calls[2].step = getPreviousToPublishStep(workflow, FirstStep(workflow),
                                                        PublishedStep)
        /\ calls[Len(calls)].step = draftVersion.step
        /\ C5_EndsPublishedPlusDraft

C5_Witness == C5_Scenario /\ draftVersion.step = "review" /\ workflow = WfChain

(***************************************************************************)
(* C6. As claimed: after the import of an item has completed without       *)
(* error, the target variant is at the workflow step named by the          *)
(* snapshot's version, for every initial state of the target; the cleanup  *)
(* never leaves it at the first step when the draft version names another. *)
(***************************************************************************)
PublishedVersionInPlace == publishedVersion # NoVersion => target.pub
DraftVersionInPlace == draftVersion # NoVersion => target.draft = draftVersion.step

C6_AsClaimed ==
    result = "done" => PublishedVersionInPlace /\ DraftVersionInPlace

(***************************************************************************)
(* C7. When the version's step is the published step, the workflow driver  *)
(* first moves the variant to the penultimate step of the shortest path    *)
(* from the variant's step to the published step, and issues publish only  *)
(* when that step change has completed.                                    *)
(***************************************************************************)
C7_MoveThenPublish ==
    \A k \in CallIndexes :
        calls[k].op = "publish" =>
            LET previous == getPreviousToPublishStep(workflow, variantStep, PublishedStep)
            IN previous # "none" =>
                /\ k > 1
                /\ calls[k - 1].op = "changeWorkflow"
                /\ calls[k - 1].step = previous
                /\ calls[k - 1].version = calls[k].version
                /\ calls[k - 1].outcome = "ok"

\* publish was accepted in a workflow whose first step does not lead to the
\* published step.
C7_Witness ==
    /\ workflow = WfDiamond
    /\ \E k \in CallIndexes : calls[k].op = "publish" /\ calls[k].outcome = "ok"

(***************************************************************************)
(* C8. A publish that fails with a bad-publish error is swallowed: a       *)
(* publishError entry is logged and the import of the item goes on; a      *)
(* publish that fails with any other error fails the import of the item    *)
(* with that error.                                                        *)
(***************************************************************************)
FailedAt(k) == result = "failed" /\ k = Len(calls)

C8_BadPublishSwallowed ==
    \A k \in CallIndexes :
        calls[k].op = "publish" =>
            /\ calls[k].outcome = "badPublish" =>
                    /\ [type |-> "publishError", at |-> k] \in logs
                    /\ ~FailedAt(k)
            /\ calls[k].outcome \in {"kontentError", "networkError"} =>
                    /\ FailedAt(k)
                    /\ error = calls[k].outcome

C8_Witness ==
    /\ result = "done"
    /\ \E k \in CallIndexes : calls[k].op = "publish" /\ calls[k].outcome = "badPublish"

(***************************************************************************)
(* C9. When a variant of the item in the target is seen as scheduled to    *)
(* publish or to unpublish, the matching cancel call (cancel publish for   *)
(* scheduledPublish, cancel unpublish for scheduledUnpublish) is issued    *)
(* before any upsert and before the createNewVersion or move-to-draft of   *)
(* the preparation. Stated for a schedule that is really there: as long as *)
(* it is, none of these calls has been issued without the cancel call      *)
(* before it.                                                              *)
(***************************************************************************)
MatchingCancel(scheduledState) ==
    IF scheduledState = "scheduledPublish"
    THEN "cancelScheduledPublish"
    ELSE "cancelScheduledUnpublish"

ObservedScheduled ==
    {lv \in {observed.draftLanguageVariant, observed.publishedLanguageVariant} :
        lv.exists /\ lv.scheduledState \in {"scheduledPublish", "scheduledUnpublish"}}

StillScheduled(lv) ==
    IF lv.scheduledState = "scheduledPublish"
    THEN target.draft = ScheduledStep
    ELSE target.schedUnpub

C9_CancelScheduledFirst ==
    \A lv \in ObservedScheduled :
        StillScheduled(lv) =>
            \A k \in CallIndexes :
                calls[k].op \in {"upsert", "createNewVersion", "changeWorkflow"} =>
                    \E j \in 1..(k - 1) : calls[j].op = MatchingCancel(lv.scheduledState)

(***************************************************************************)
(* C10. When cancelling the scheduled state seen on the target fails       *)
(* because nothing is scheduled, the preparation tolerates the error and   *)
(* the import of the item goes on to the upsert instead of failing.        *)
(***************************************************************************)
C10_NothingScheduledTolerated ==
    \A k \in CallIndexes :
        /\ calls[k].op \in {"cancelScheduledPublish", "cancelScheduledUnpublish"}
        /\ calls[k].outcome = "kontentError"
        => ~FailedAt(k)

(***************************************************************************)
(* C11. As claimed: when the target variant is archived, the preparation   *)
(* moves it to the first step of the target variant's own workflow before  *)
(* any upsert; afterwards the workflow driver moves it to the snapshot's   *)
(* step.                                                                   *)
(***************************************************************************)
ArchivedSeen ==
    languageVariantToPrepare.exists /\ languageVariantToPrepare.workflowState = "archived"

\* The move of the preparation is the call awaited.
AtPrepareMove ==
    /\ result = "running"
    /\ Program[pc] = [stage |-> "prepare", at |-> "workflowState"]
    /\ ArchivedSeen

\* Every upsert comes after a completed move to the first step.
MovedBeforeUpsert ==
    \A k \in CallIndexes :
        calls[k].op = "upsert" =>
            \E j \in 1..(k - 1) :
                /\ calls[j].op = "changeWorkflow"
                /\ calls[j].version = NoVersion
                /\ calls[j].step = FirstStep(workflow)
                /\ calls[j].outcome = "ok"

\* The call by which the workflow driver takes version v to its step (the
\* driver does nothing for the scheduled step).
IsDriverCall(c, v) ==
    /\ c.version = v
    /\ CASE isPublishedStepByCodename(v.step) -> c.op = "publish"
         [] isScheduledStepByCodename(v.step) -> c.op = "upsert"
         [] OTHER -> c.op = "changeWorkflow" /\ c.step = v.step /\ c.outcome = "ok"

DriverFollows ==
    result = "done" =>
        \A v \in {publishedVersion, draftVersion} \ {NoVersion} :
            \E k \in CallIndexes : IsDriverCall(calls[k], v)

PublishedSeen ==
    languageVariantToPrepare.exists /\ languageVariantToPrepare.workflowState = "published"

InPublishedState(t) == t.pub /\ t.draft = "none"

C12_NewVersionBeforeUpsert ==
    /\ PublishedSeen =>
        \A k \in CallIndexes :
            calls[k].op = "upsert" =>
                \E j \in 1..(k - 1) :
                    /\ calls[j].op = "createNewVersion"
                    /\ calls[j].version = NoVersion
                    /\ calls[j].outcome = "ok"
    /\ \A k \in CallIndexes :
            calls[k].op = "upsert" /\ calls[k].outcome = "pending" => ~InPublishedState(target)

\* A published variant got its new version and the upsert was accepted.
C12_Witness ==
    /\ PublishedSeen
    /\ \E k \in CallIndexes :
            /\ calls[k].op = "upsert" /\ calls[k].outcome = "ok"
            /\ calls[k - 1].op = "createNewVersion" /\ calls[k - 1].version = NoVersion

(***************************************************************************)
(* C13. If the target had a published variant of the item and the snapshot *)
(* item has no published version, the import issues unpublish followed by  *)
(* the move to the first step; if the snapshot has a published version, or *)
(* the target had no published variant, neither call is issued as cleanup. *)
(***************************************************************************)
CleanupDue == observed.publishedLanguageVariant.exists /\ publishedVersion = NoVersion

IsMoveToFirstStep(c) ==
    c.op = "changeWorkflow" /\ c.version = NoVersion /\ c.step = FirstStep(workflow)

\* unpublish at k, answered and not thrown, with the move right after it
UnpublishThenMove(k) ==
    /\ calls[k].op = "unpublish"
    /\ calls[k].outcome \in {"ok", "kontentError"}
    /\ k < Len(calls)
    /\ IsMoveToFirstStep(calls[k + 1])

\* a move to the first step that is not the preparation's move of an
\* archived variant
IsCleanupMove(k) ==
    /\ IsMoveToFirstStep(calls[k])
    /\ ~(ArchivedSeen /\ \A j \in 1..(k - 1) :
            calls[j].op \in {"cancelScheduledPublish", "cancelScheduledUnpublish"})

C13_CleanupIffPublishedGone ==
    /\ CleanupDue =>
        /\ result = "done" => \E k \in CallIndexes : UnpublishThenMove(k)
        /\ \A k \in CallIndexes :
                /\ (calls[k].op = "unpublish" /\ ~FailedAt(k) /\ calls[k].outcome # "pending"
                        => UnpublishThenMove(k))
                /\ (IsCleanupMove(k) => k > 1 /\ calls[k - 1].op = "unpublish")
    /\ ~CleanupDue =>
        \A k \in CallIndexes : calls[k].op # "unpublish" /\ ~IsCleanupMove(k)

\* The published variant of the target was unpublished and moved, and the
\* draft version of the snapshot imported.
C13_Witness ==
    /\ CleanupDue
    /\ result = "done"
    /\ draftVersion # NoVersion
    /\ \E k \in CallIndexes : UnpublishThenMove(k) /\ calls[k].outcome = "ok"

(***************************************************************************)
(* C14. The categorization puts a version among the published ones iff its *)
(* step codename is the workflow's published step, and among the draft     *)
(* ones otherwise; an item with more than one published or more than one   *)
(* draft version fails with an error before any API call is issued for it, *)
(* and the other items of the run are still imported.                      *)
(***************************************************************************)
CountOf(seq, v) == Cardinality({k \in 1..Len(seq) : seq[k] = v})

CategorizedByStep ==
    \A v \in Range(versions) :
        /\ CountOf(publishedVersions, v) =
                (IF v.step = PublishedStep THEN CountOf(versions, v) ELSE 0)
        /\ CountOf(draftVersions, v) =
                (IF v.step = PublishedStep THEN 0 ELSE CountOf(versions, v))

TooManyVersions ==
    \/ Cardinality({k \in 1..Len(versions) : versions[k].step = PublishedStep}) > 1
    \/ Cardinality({k \in 1..Len(versions) : versions[k].step # PublishedStep}) > 1

FailsBeforeAnyCall ==
    TooManyVersions /\ result # "idle" =>
        result = "failed" /\ calls = <<>> /\ (preparedContentItem => error = "categorize")

CategorizeFailed == result = "failed" /\ error = "categorize" /\ Running # {}

\* The step that follows the failure: the item gets its error result, the
\* call of processItemsAsync does not throw, and the next item is started.
RecordedAndNextStarted ==
    /\ \A i \in Running :
            requests'[i].promise = "fulfilled" /\ requests'[i].value.state = "error"
    /\ call' # "threw"
    /\ queue # <<>> => status'[Head(queue)] = "running" /\ result' = "idle"

AllItemsHaveResults ==
    call = "returned" =>
        /\ Len(resultItems) = nItems
        /\ \A i \in 1..nItems : resultItems[i].state \in {"valid", "error"}

C14_CategorizeOrFailItem ==
    /\ [](CategorizedByStep /\ FailsBeforeAnyCall /\ AllItemsHaveResults)
    /\ [][CategorizeFailed => RecordedAndNextStarted]_vars
    /\ (CategorizeFailed ~> call = "returned")

\* The run has returned: its first item failed, its second one, with a
\* published and a draft version, was imported after that.
C14_Witness ==
    /\ call = "returned"
    /\ nItems = 2
    /\ resultItems[1].state = "error"
    /\ resultItems[2].state = "valid"
    /\ Len(versions) = 2 /\ result = "done" /\ Len(calls) > 4

(***************************************************************************)
(* C15. As claimed: within one item the operations are issued strictly in  *)
(* sequence, in the order shell create, upsert of the variant, workflow    *)
(* driver, scheduling: each starts only when the previous one has          *)
(* completed, the upsert always names the first step of the target         *)
(* workflow, and a failure in one step prevents all later steps of that    *)
(* version.                                                                *)
(***************************************************************************)
PhaseOf(c) ==
    CASE c.op = "createNewVersion" -> 0
      [] c.op = "upsert" -> 1
      [] c.op \in {"changeWorkflow", "publish"} -> 2
      [] c.op \in {"scheduleUnpublish", "schedulePublish"} -> 3
      [] OTHER -> 4

\* the calls of one version come in the order of the phases, with one upsert
InPhaseOrder ==
    \A j \in CallIndexes, k \in CallIndexes :
        j < k /\ calls[j].version # NoVersion /\ calls[j].version = calls[k].version =>
            /\ PhaseOf(calls[j]) <= PhaseOf(calls[k])
            /\ ~(calls[j].op = "upsert" /\ calls[k].op = "upsert")

\* a call is issued only when the one before it has been answered
OneAtATime == \A k \in CallIndexes : k < Len(calls) => calls[k].outcome # "pending"

\* no call of the variant without the content item prepared before
ShellFirst == calls # <<>> => preparedContentItem

UpsertNamesFirstStep ==
    \A k \in CallIndexes :
        calls[k].op = "upsert" =>
            calls[k].step = workflow.steps[1] /\ calls[k].workflow = workflow.codename

NoCallOfVersionAfter(k) ==
    \A j \in CallIndexes : j > k => calls[j].version # calls[k].version

C15_AsClaimed ==
    /\ InPhaseOrder /\ OneAtATime /\ ShellFirst /\ UpsertNamesFirstStep
    /\ \A k \in CallIndexes :
            calls[k].version # NoVersion /\ calls[k].outcome \notin {"ok", "pending"} =>
                NoCallOfVersionAfter(k)

\* C15 as amended: ... and a failure in one step prevents all later steps of
\* that version, except a publish refused with a bad-publish error, which is
\* swallowed: the scheduling of that version still follows it.
C15_Amended ==
    /\ InPhaseOrder /\ OneAtATime /\ ShellFirst /\ UpsertNamesFirstStep
    /\ \A k \in CallIndexes :
            /\ calls[k].version # NoVersion
            /\ calls[k].outcome \notin {"ok", "pending"}
            /\ ~(calls[k].op = "publish" /\ calls[k].outcome = "badPublish")
            => NoCallOfVersionAfter(k) /\ FailedAt(k)

\* A version went through upsert, workflow driver and scheduling.
C15_Witness ==
    /\ result = "done"
    /\ AllOk
    /\ \E i \in CallIndexes, j \in CallIndexes, k \in CallIndexes :
        /\ calls[i].op = "upsert" /\ calls[j].op = "publish" /\ calls[k].op = "scheduleUnpublish"
        /\ calls[i].version = calls[j].version /\ calls[j].version = calls[k].version

(***************************************************************************)
(* C16. After the workflow driver of a version, schedule-publish is issued *)
(* if and only if the version's schedule.publish_time is set, and          *)
(* schedule-unpublish if and only if its schedule.unpublish_time is set; a *)
(* version without a schedule triggers neither. Stated of a version whose  *)
(* import has come to its end: the item is done.                           *)
(***************************************************************************)
IssuedFor(v, op) == \E k \in CallIndexes : calls[k].version = v /\ calls[k].op = op

C16_ScheduledIffTimeSet ==
    result = "done" =>
        \A v \in {publishedVersion, draftVersion} \ {NoVersion} :
            /\ IssuedFor(v, "schedulePublish") <=> v.publish_time
            /\ IssuedFor(v, "scheduleUnpublish") <=> v.unpublish_time

(***************************************************************************)
(* Claims about the content items importer.                                *)
(***************************************************************************)
ContentItemCallIndexes == 1..Len(contentItemCalls)

AddCallsOf(c) ==
    {k \in ContentItemCallIndexes :
        contentItemCalls[k].op = "addContentItem" /\ contentItemCalls[k].codename = c}

UpsertCallsOf(i) ==
    {k \in ContentItemCallIndexes :
        contentItemCalls[k].op = "upsertContentItem" /\ contentItemCalls[k].of = i}

Settled(i) == status[i] = "settled"

(***************************************************************************)
(* C17. As claimed: over the migration items of one import run,            *)
(* addContentItem is issued at most once per item codename; the memo       *)
(* createdContentItems is written at most once per key, and a later        *)
(* migration item with the same codename reuses the created shell.         *)
(***************************************************************************)
\* an entry of the memo, once written, stays as it is
MemoWrittenOnce ==
    \A c \in DOMAIN createdContentItems :
        c \in DOMAIN createdContentItems' /\ createdContentItems'[c] = createdContentItems[c]

C17_AsClaimed ==
    /\ [](\A c \in Codenames : Cardinality(AddCallsOf(c)) <= 1)
    /\ [][MemoWrittenOnce]_vars

\* C17 as amended: addContentItem succeeds at most once per codename and is
\* never issued again for a codename after it has succeeded; it is issued
\* again for a later item of the codename only when every earlier
\* addContentItem of the codename has failed.
AddedAtMostOnce ==
    \A c \in Codenames :
        \A j \in AddCallsOf(c), k \in AddCallsOf(c) :
            j < k => contentItemCalls[j].outcome = "error"

C17_Amended ==
    /\ [](AddedAtMostOnce)
    /\ [][MemoWrittenOnce]_vars

\* The first two items have the same codename: the first one was created,
\* the second one returned that shell without a call.
C17_Witness ==
    /\ Len(migrationItems) >= 2
    /\ migrationItems[1].codename = migrationItems[2].codename
    /\ Settled(2)
    /\ requests[2] = Fulfilled(OutputOf(2))
    /\ Len(contentItemCalls) = 1
    /\ contentItemCalls[1].op = "addContentItem" /\ contentItemCalls[1].outcome = "ok"

(***************************************************************************)
(* C18. For a migration item whose state in the target is exists,          *)
(* addContentItem is never issued, and upsertContentItem is issued if and  *)
(* only if the snapshot's name or collection codename differs from the     *)
(* target item's, with a payload of name and collection only.              *)
(***************************************************************************)
ExistsInTarget(c) == itemStates[c].state = "exists"

Differs(m) ==
    m.name # itemStates[m.codename].item.name
        \/ m.collection # itemStates[m.codename].item.collection

C18_UpsertIffDiffers ==
    /\ \A c \in Codenames : ExistsInTarget(c) => AddCallsOf(c) = {}
    /\ \A i \in 1..Len(migrationItems) :
            Settled(i) /\ ExistsInTarget(migrationItems[i].codename) =>
                /\ UpsertCallsOf(i) # {} <=> Differs(migrationItems[i])
                /\ \A k \in UpsertCallsOf(i) :
                        contentItemCalls[k].data =
                            [name |-> migrationItems[i].name,
                             collection |-> migrationItems[i].collection]

\* An item that exists with another collection was upserted, one that
\* exists with the same name and collection was not.
C18_Witness ==
    \E i \in 1..Len(migrationItems), j \in 1..Len(migrationItems) :
        /\ Settled(i) /\ Settled(j)
        /\ ExistsInTarget(migrationItems[i].codename)
        /\ ExistsInTarget(migrationItems[j].codename)
        /\ migrationItems[i].collection = "c2"
        /\ \E k \in UpsertCallsOf(i) : contentItemCalls[k].outcome = "ok"
        /\ ~Differs(migrationItems[j]) /\ UpsertCallsOf(j) = {}

(***************************************************************************)
(* C19. For a migration item whose state in the target is doesNotExists,   *)
(* addContentItem is issued for its codename with the name, type,          *)
(* collection and codename of the migration item it is issued for and with *)
(* external_id equal to the externalIdToUse of the import context for that *)
(* codename, and no upsertContentItem is issued for the codename in the    *)
(* run.                                                                    *)
(***************************************************************************)
IsAddOf(c, m) ==
    /\ c.op = "addContentItem"
    /\ c.data = [name |-> m.name, type |-> m.type, collection |-> m.collection,
                    codename |-> m.codename,
                    external_id |-> itemStates[m.codename].externalIdToUse]

C19_AddWithExternalId ==
    /\ \A k \in ContentItemCallIndexes :
            contentItemCalls[k].op = "addContentItem" =>
                IsAddOf(contentItemCalls[k], migrationItems[contentItemCalls[k].of])
    /\ \A i \in 1..Len(migrationItems) :
            Settled(i) /\ ~ExistsInTarget(migrationItems[i].codename) =>
                /\ AddCallsOf(migrationItems[i].codename) # {}
                /\ UpsertCallsOf(i) = {}
    /\ \A k \in ContentItemCallIndexes :
            contentItemCalls[k].op = "upsertContentItem" =>
                ExistsInTarget(contentItemCalls[k].codename)

C19_Witness ==
    \E i \in 1..Len(migrationItems) :
        /\ Settled(i)
        /\ ~ExistsInTarget(migrationItems[i].codename)
        /\ requests[i] = Fulfilled(OutputOf(i))
        /\ \E k \in AddCallsOf(migrationItems[i].codename) :
                contentItemCalls[k].of = i /\ contentItemCalls[k].outcome = "ok"

(***************************************************************************)
(* Part V : one management API request under defaultRetryStrategy.         *)
(*                                                                         *)
(* The strategy itself (canRetryError, maxAttempts) is in the sources; the *)
(* loop that applies it is the HTTP service's: a failed attempt whose      *)
(* error the predicate accepts is repeated while attempts are left.        *)
(***************************************************************************)
rateExceededErrorCode == 10000

maxAttempts == 3

\* Error codes of the platform's error responses: some below, at and above
\* the rate limit's code.
ErrorCodes == {0, 5, 105, 9999, rateExceededErrorCode, 10001}

\* What an attempt can come back with: success, or an error that may carry a
\* response, the response data, and data.error_code.
Success == [ok |-> TRUE]

ErrorResponse(hasResponse, hasData, hasErrorCode, code) ==
    [ok |-> FALSE, response |-> hasResponse, data |-> hasData,
     has_error_code |-> hasErrorCode, error_code |-> code]

Errors ==
    {ErrorResponse(FALSE, FALSE, FALSE, 0),   \* no response at all
     ErrorResponse(TRUE, FALSE, FALSE, 0),    \* a response without data
     ErrorResponse(TRUE, TRUE, FALSE, 0)}     \* data without error_code
    \cup {ErrorResponse(TRUE, TRUE, TRUE, c) : c \in ErrorCodes}

Responses == {Success} \cup Errors

canRetryErrorAlways(err) == TRUE

\* canRetryError: err?.response?.data?.error_code ?? -1, then the test
canRetryError(err) ==
    LET errorCode == IF err.response /\ err.data /\ err.has_error_code
                     THEN err.error_code ELSE -1
    IN  IF errorCode >= 0 /\ errorCode # rateExceededErrorCode
        THEN FALSE
        ELSE TRUE

InitRetry ==
    /\ responses = <<>>
    /\ retryState = "requesting"
    /\ HarnessIdle
    /\ ImportIdle
    /\ ContentItemsIdle
    /\ NoSignal
    /\ NoStage
    /\ ExportIdle
    /\ RestIdle

\* an attempt comes back
AttemptResponds ==
    /\ retryState = "requesting"
    /\ \E r \in Responses :
        /\ responses' = Append(responses, r)
        /\ retryState' = IF r.ok THEN "succeeded" ELSE "errored"
    /\ UNCHANGED <<harnessVars, importVars, contentItemVars, signalVars, stageVars, exportVars, restVars>>

\* the error is retryable and attempts are left: the request is sent again
Retries ==
    /\ retryState = "errored"
    /\ canRetryError(responses[Len(responses)])
    /\ Len(responses) < maxAttempts
    /\ retryState' = "requesting"
    /\ UNCHANGED <<responses, harnessVars, importVars, contentItemVars, signalVars, stageVars, exportVars, restVars>>

\* otherwise the error surfaces to the caller
ErrorSurfaces ==
    /\ retryState = "errored"
    /\ ~(canRetryError(responses[Len(responses)]) /\ Len(responses) < maxAttempts)
    /\ retryState' = "failed"
    /\ UNCHANGED <<responses, harnessVars, importVars, contentItemVars, signalVars, stageVars, exportVars, restVars>>

NextRetry == AttemptResponds \/ Retries \/ ErrorSurfaces

SpecRetry == InitRetry /\ [][NextRetry]_vars

(***************************************************************************)
(* C20: an error is retried if and only if its response carries no         *)
(* platform error code or carries exactly the code 10000 (rateExceeded),   *)
(* and attempts are left; an error carrying any other platform error code  *)
(* surfaces at once; a request is attempted at most 3 times.               *)
(***************************************************************************)
CarriesErrorCode(err) == err.response /\ err.data /\ err.has_error_code

RetryableAsClaimed(err) ==
    \/ ~CarriesErrorCode(err)
    \/ err.error_code = 10000

\* the errors decided upon so far: all but one that is still "errored"
Decided ==
    {k \in 1..Len(responses) :
        /\ ~responses[k].ok
        /\ (k = Len(responses) => retryState # "errored")}

C20_RetryableIffNoCodeOrRateExceeded ==
    /\ Len(responses) <= 3
    /\ \A k \in Decided :
            (k < Len(responses) \/ retryState = "requesting")
                <=> (RetryableAsClaimed(responses[k]) /\ k < 3)
    /\ \A e \in Errors : canRetryError(e) <=> RetryableAsClaimed(e)

C20_Witness ==
    /\ Len(responses) = 3
    /\ responses[1] = ErrorResponse(TRUE, TRUE, TRUE, 10000)
    /\ responses[2] = ErrorResponse(TRUE, TRUE, FALSE, 0)
    /\ responses[3] = ErrorResponse(TRUE, TRUE, TRUE, 10001)
    /\ retryState = "failed"

(***************************************************************************)
(* Part VI : the harness while a cancellation signal arrives.              *)
(*                                                                         *)
(* processItemsAsync has no parameter for a signal and its results know    *)
(* the states valid, 404 and error only, so the signal is an event of the  *)
(* environment that no action of the harness reads.                        *)
(***************************************************************************)
CancellationSignal ==
    /\ call = "pending"
    /\ ~cancelSignal
    /\ cancelSignal' = TRUE
    /\ UNCHANGED <<harnessVars, importVars, contentItemVars, retryVars, stageVars, exportVars, restVars>>

NextCancel == NextHarness \/ CancellationSignal

SpecCancel == InitHarness /\ [][NextCancel]_vars /\ WF_vars(NextHarness)

(***************************************************************************)
(* C21: once a cancellation signal has been received no task that has not  *)
(* started is started, and every task in flight settles with a cancelled   *)
(* marker.                                                                 *)
(***************************************************************************)
NoStartAfterSignal ==
    \A i \in 1..nItems : status[i] = "queued" => status'[i] = "queued"

InFlightReturnsCancelled ==
    \A i \in 1..nItems :
        status[i] = "running" /\ status'[i] = "settled" =>
            requests'[i].value.kind = "cancelled"

C21_CancellationStopsHarness ==
    [][cancelSignal => NoStartAfterSignal /\ InFlightReturnsCancelled]_vars

(***************************************************************************)
(* Part VII : the pipeline stages and the parallelLimit each of them hands *)
(* to processItemsAsync.                                                   *)
(***************************************************************************)
MaxStageItems == 6

Stages ==
    {"prepareExportItems", "fetchContentItems", "fetchAssets", "downloadAssets",
     "importContentItems", "importLanguageVariants", "editAssets", "uploadAssets"}

StageLimitDoubled(s) ==
    CASE s = "downloadAssets" -> 10
      [] s = "uploadAssets"   -> 6
      [] OTHER                -> 2

\* parallelLimit of the stage's processItemsAsync call
StageLimit(s) ==
    CASE s = "downloadAssets" -> 5
      [] s = "uploadAssets"   -> 3
      [] OTHER                -> 1

\* the content items importer passes failOnError and so runs the helper's shape
StageImpl(s) == IF s = "importContentItems" THEN "helper" ELSE "utils"

InitStages ==
    /\ pipelineStage \in Stages
    /\ impl = StageImpl(pipelineStage)
    /\ nItems \in 0..MaxStageItems
    /\ parallelLimit = StageLimit(pipelineStage)
    /\ failOnError \in IF impl = "helper" THEN {"true", "false"} ELSE {"undefined"}
    /\ status = [i \in 1..nItems |-> "queued"]
    /\ queue = <<>>
    /\ activeCount = 0
    /\ requests = [i \in 1..nItems |-> Pending]
    /\ processedItemsCount = 1
    /\ errorLog = {}
    /\ prefixes = <<>>
    /\ call = "idle"
    /\ resultItems = <<>>
    /\ ImportIdle
    /\ ContentItemsIdle
    /\ RetryIdle
    /\ NoSignal
    /\ ExportIdle
    /\ RestIdle

SpecStages == InitStages /\ [][NextHarness]_vars /\ WF_vars(NextHarness)

(***************************************************************************)
(* C22: no stage has more tasks in flight than its limit: asset download   *)
(* at most 5, asset upload at most 3, and every other stage (export-item   *)
(* preparation, referenced item and asset fetch, content-item import,      *)
(* language-variant import, asset edit) at most 1.                         *)
(***************************************************************************)
C22_StagesRespectLimits ==
    /\ pipelineStage = "downloadAssets" => Cardinality(Running) <= 5
    /\ pipelineStage = "uploadAssets" => Cardinality(Running) <= 3
    /\ pipelineStage \in Stages \ {"downloadAssets", "uploadAssets"} => Cardinality(Running) <= 1

C22_Witness ==
    /\ pipelineStage = "downloadAssets"
    /\ Cardinality(Running) = 5
    /\ \E i \in 1..nItems : status[i] = "settled"

(***************************************************************************)
(* Part VIII : preparation of the export items (export-context-fetcher.ts) *)
(*                                                                         *)
(* A request item is modelled with what the source environment holds for   *)
(* it: whether the content item can be fetched, the step of its latest     *)
(* variant, what the published endpoint answers, and which of the things   *)
(* validateExportItem looks up is missing from the environment data.       *)
(***************************************************************************)
Unresolvables == {"collection", "contentType", "language", "workflow", "workflowStep"}

SourceItem(latest, published) ==
    [contentItem |-> "ok", unresolved |-> "none", latest |-> latest,
     published |-> published]

\* The published endpoint answers with a variant only when a published
\* version exists; an archived variant has none.
SourceItemShapes ==
    {SourceItem("draft", "404"), SourceItem("draft", "ok"),
     SourceItem("published", "ok"), SourceItem("archived", "404"),
     SourceItem("scheduled", "ok"), SourceItem("draft", "error"),
     SourceItem("error", "404"),
     [SourceItem("draft", "404") EXCEPT !.contentItem = "error"],
     [SourceItem("published", "ok") EXCEPT !.unresolved = "workflowStep"]}
    \cup {[SourceItem("draft", "404") EXCEPT !.unresolved = u] : u \in Unresolvables}

ExportCall(op, i) == [op |-> op, of |-> i]

\* isLanguageVariantPublished: the variant's step is a workflow's published step
isLanguageVariantPublishedAlways(step) == TRUE

isLanguageVariantPublished(step) == step = PublishedStep

\* validateExportItem: findRequired of collection, content type, language and
\* workflow, getWorkflowStep of the step; any of them missing throws.
validateExportItemNever(item) == FALSE

validateExportItemThrows(item) == item.unresolved \in Unresolvables

\* mapToExportVersionItem
ExportItemVersion(endpoint, step) ==
    [languageVariant |-> endpoint, workflowStepCodename |-> step]

RunningExportItem == CHOOSE i \in 1..nItems : status[i] = "running"

InitPrepare ==
    /\ sourceItems \in SeqsUpTo(SourceItemShapes, MaxItems)
    /\ exportPc = "idle"
    /\ exportCalls = <<>>
    /\ exportVersions = [i \in 1..Len(sourceItems) |-> <<>>]
    /\ exportErrors = <<>>
    /\ exportItems = <<>>
    /\ impl = "utils"
    /\ nItems = Len(sourceItems)
    /\ parallelLimit = 1
    /\ failOnError = "undefined"
    /\ status = [i \in 1..nItems |-> "queued"]
    /\ queue = <<>>
    /\ activeCount = 0
    /\ requests = [i \in 1..nItems |-> Pending]
    /\ processedItemsCount = 1
    /\ errorLog = {}
    /\ prefixes = <<>>
    /\ call = "idle"
    /\ resultItems = <<>>
    /\ ImportIdle
    /\ ContentItemsIdle
    /\ RetryIdle
    /\ NoSignal
    /\ NoStage
    /\ RestIdle

\* what prepareExportItemsAsync does with the harness' result: the failed
\* items are logged, the valid ones returned
FailedItems(res) ==
    SelectSeq([k \in 1..Len(res) |-> IF res[k].state = "error" THEN res[k].inputItem ELSE 0],
              LAMBDA x : x # 0)

ValidItems(res) ==
    SelectSeq([k \in 1..Len(res) |-> IF res[k].state = "valid" THEN res[k].inputItem ELSE 0],
              LAMBDA x : x # 0)

\* prepareExportItemsAsync: the call of processItemsAsync; the first request
\* item starts with viewContentItem
PrepareExportItemsAsync ==
    /\ exportPc = "idle"
    /\ ProcessItemsHarness
    /\ exportPc' = IF nItems = 0 THEN "returned" ELSE "viewContentItem"
    /\ UNCHANGED <<sourceItems, exportCalls, exportVersions, exportErrors, exportItems>>
    /\ UNCHANGED <<importVars, contentItemVars, retryVars, signalVars, stageVars, restVars>>

\* processAsync of the running item ends with the outcome: the harness
\* records it and starts the next item; after the last item the results are
\* split into the logged errors and the returned export items
ExportItemSettles(i, outcome, itemVersions) ==
    /\ SettleHarness(i, outcome)
    /\ exportVersions' = [exportVersions EXCEPT ![i] = itemVersions]
    /\ IF call' = "returned"
       THEN /\ exportPc' = "returned"
            /\ exportErrors' = FailedItems(resultItems')
            /\ exportItems' = ValidItems(resultItems')
       ELSE /\ exportPc' = "viewContentItem"
            /\ UNCHANGED <<exportErrors, exportItems>>

\* the awaited call of the running item comes back
ExportCallResponds ==
    /\ exportPc \in {"viewContentItem", "viewLatest", "viewPublished"}
    /\ LET i    == RunningExportItem
           item == sourceItems[i]
           latestVersion == ExportItemVersion("latest", item.latest)
       IN /\ exportCalls' = Append(exportCalls, ExportCall(exportPc, i))
          /\ CASE exportPc = "viewContentItem" ->
                    IF item.contentItem = "error"
                    THEN ExportItemSettles(i, "throw", <<>>)
                    ELSE /\ exportPc' = "viewLatest"
                         /\ UNCHANGED <<harnessVars, exportVersions, exportErrors, exportItems>>
               [] exportPc = "viewLatest" ->
                    IF item.latest = "error" \/ validateExportItemThrows(item)
                    THEN ExportItemSettles(i, "throw", <<>>)
                    ELSE IF isLanguageVariantPublished(item.latest)
                    THEN ExportItemSettles(i, "ok", <<latestVersion>>)
                    ELSE /\ exportPc' = "viewPublished"
                         /\ UNCHANGED <<harnessVars, exportVersions, exportErrors, exportItems>>
               [] exportPc = "viewPublished" ->
                    CASE item.published = "404" ->
                            ExportItemSettles(i, "ok", <<latestVersion>>)
                      [] item.published = "error" ->
                            ExportItemSettles(i, "throw", <<>>)
                      [] item.published = "ok" ->
                            IF validateExportItemThrows(item)
                            THEN ExportItemSettles(i, "throw", <<>>)
                            ELSE ExportItemSettles(i, "ok",
                                    <<latestVersion, ExportItemVersion("published", PublishedStep)>>)
    /\ UNCHANGED sourceItems
    /\ UNCHANGED <<importVars, contentItemVars, retryVars, signalVars, stageVars, restVars>>

NextPrepare == PrepareExportItemsAsync \/ ExportCallResponds

SpecPrepare == InitPrepare /\ [][NextPrepare]_vars /\ WF_vars(NextPrepare)

(***************************************************************************)
(* C23: the versions of every export item are the latest variant, followed *)
(* by the published variant exactly when the latest variant is not at the  *)
(* published step and the published endpoint did not answer 404; so an     *)
(* item has at most one published and at most one draft version, and the   *)
(* published endpoint is never called for an item whose latest variant is  *)
(* published.                                                              *)
(***************************************************************************)
IsExportItem(i) ==
    /\ requests[i].promise = "fulfilled"
    /\ requests[i].value.state = "valid"

VersionsAtStep(vs, published) ==
    {k \in 1..Len(vs) : (vs[k].workflowStepCodename = "published") = published}

CallsOfItem(op, i) ==
    {k \in 1..Len(exportCalls) : exportCalls[k] = [op |-> op, of |-> i]}

C23_LatestPlusPublished ==
    \A i \in 1..Len(sourceItems) :
        /\ IsExportItem(i) =>
            LET vs == exportVersions[i]
                withPublished == /\ sourceItems[i].latest # "published"
                                 /\ sourceItems[i].published # "404"
            IN /\ Len(vs) >= 1
               /\ vs[1] = [languageVariant |-> "latest",
                           workflowStepCodename |-> sourceItems[i].latest]
               /\ Len(vs) = IF withPublished THEN 2 ELSE 1
               /\ withPublished => vs[2].languageVariant = "published"
               /\ Cardinality(VersionsAtStep(vs, TRUE)) <= 1
               /\ Cardinality(VersionsAtStep(vs, FALSE)) <= 1
        /\ sourceItems[i].latest = "published" => CallsOfItem("viewPublished", i) = {}

C23_Witness ==
    /\ exportPc = "returned"
    /\ \E i, j \in 1..Len(exportItems) :
        /\ Len(exportVersions[exportItems[i]]) = 2
        /\ sourceItems[exportItems[j]].latest = "published"
        /\ Len(exportVersions[exportItems[j]]) = 1

(***************************************************************************)
(* C24: when the preparation has returned, every request item whose        *)
(* collection, content type, language, workflow or workflow step is not in *)
(* the environment data has been reported as an error and is not among the *)
(* export items, and the export items are exactly the request items that   *)
(* were fetched and validate, in the order of the request.                 *)
(***************************************************************************)
FetchedAndValid(i) ==
    LET item == sourceItems[i] IN
    /\ item.contentItem = "ok"
    /\ item.latest # "error"
    /\ item.unresolved = "none"
    /\ (item.latest # "published" => item.published # "error")

C24_InvalidItemsDropped ==
    exportPc = "returned" =>
        /\ \A i \in 1..Len(sourceItems) :
                sourceItems[i].unresolved # "none" =>
                    /\ i \in Range(exportErrors)
                    /\ i \in errorLog
                    /\ i \notin Range(exportItems)
        /\ exportItems = SelectSeq(SeqOfItems(Len(sourceItems)), FetchedAndValid)

C24_Witness ==
    /\ exportPc = "returned"
    /\ Len(sourceItems) = 3
    /\ sourceItems[2].unresolved = "workflowStep"
    /\ exportItems = <<1, 3>>
    /\ exportErrors = <<2>>

(***************************************************************************)
(* Part IX : the states of the referenced items and assets                 *)
(* (getContentItemsByIdsAsync / getAssetsByIdsAsync and the lookups built  *)
(* from them). The ids are 1..n, in the order of Array.from(ids); for each *)
(* the source answers with the entity, with 404, or with another error.    *)
(***************************************************************************)
SourceAnswers == {"entity", "404", "error"}

\* processAsync of an id: the entity, or '404' for a 404 error; any other
\* error is thrown again
FetchOutcome404Thrown(answer) == IF answer = "entity" THEN "ok" ELSE "throw"

FetchOutcome(answer) ==
    CASE answer = "entity" -> "ok"
      [] answer = "404"    -> "404"
      [] answer = "error"  -> "throw"

Entity(kind, id) == [kind |-> kind, id |-> id]

NoEntity == [kind |-> "undefined", id |-> 0]

\* .filter((m) => m.state === 'valid').map((m) => m.outputItem)
FetchedEntities(res) ==
    {Entity(referenceKind, res[k].inputItem) : k \in {j \in 1..Len(res) : res[j].state = "valid"}}

\* getItemStatesAsync / getAssetStatesAsync: one entry per id
StatesOf(res) ==
    [id \in 1..Len(referencedIds) |->
        LET found == {e \in FetchedEntities(res) : e.id = id} IN
        IF found # {}
        THEN [id |-> id, entity |-> CHOOSE e \in found : TRUE, state |-> "exists"]
        ELSE [id |-> id, entity |-> NoEntity, state |-> "doesNotExists"]]

\* The ids the states are fetched for: "fetch both referenced items and items
\* that are set to be exported"; for the assets the referenced ones.
IdsToFetchReferencedOnly(kind, extracted, prepared) == extracted
IdsToFetch(kind, extracted, prepared) ==
    IF kind = "item" THEN extracted \cup prepared ELSE extracted

\* The ids are numbered in the order of the Set of the closure: the
\* extracted ones first, then those of the prepared items not among them.
ReferenceClosures ==
    {c \in [extracted : SUBSET (1..MaxItems), prepared : SUBSET (1..MaxItems)] :
        /\ c.extracted = 1..Cardinality(c.extracted)
        /\ c.extracted \cup c.prepared = 1..Cardinality(c.extracted \cup c.prepared)}

InitClosure ==
    /\ referenceKind \in {"item", "asset"}
    /\ \E c \in ReferenceClosures :
        /\ extractedIds = c.extracted
        /\ preparedIds = IF referenceKind = "item" THEN c.prepared ELSE {}
    /\ referencedIds \in
            [1..Cardinality(IdsToFetch(referenceKind, extractedIds, preparedIds)) -> SourceAnswers]
    /\ statesById = <<>>
    /\ impl = "utils"
    /\ nItems = Len(referencedIds)
    /\ parallelLimit = 1
    /\ failOnError = "undefined"
    /\ status = [i \in 1..nItems |-> "queued"]
    /\ queue = <<>>
    /\ activeCount = 0
    /\ requests = [i \in 1..nItems |-> Pending]
    /\ processedItemsCount = 1
    /\ errorLog = {}
    /\ prefixes = <<>>
    /\ call = "idle"
    /\ resultItems = <<>>
    /\ ImportIdle
    /\ ContentItemsIdle
    /\ RetryIdle
    /\ NoSignal
    /\ NoStage
    /\ ExportIdle
    /\ MapIdle
    /\ MigrateIdle
    /\ FurtherIdle

\* getItemStatesAsync is called: the fetch of the ids starts (no id: the
\* harness returns at once and the lookup is empty)
GetStatesAsync ==
    /\ ProcessItemsHarness
    /\ statesById' = IF nItems = 0 THEN StatesOf(<<>>) ELSE statesById
    /\ UNCHANGED <<referenceKind, referencedIds, extractedIds, preparedIds>>
    /\ UNCHANGED <<importVars, contentItemVars, retryVars, signalVars, stageVars,
                   exportVars, mapVars, migrateVars, furtherVars>>

\* the source answers for the id being fetched; after the last id the
\* lookup is built
FetchByIdResponds(i) ==
    /\ SettleHarness(i, FetchOutcome(referencedIds[i]))
    /\ statesById' = IF call' = "returned" THEN StatesOf(resultItems') ELSE statesById
    /\ UNCHANGED <<referenceKind, referencedIds, extractedIds, preparedIds>>
    /\ UNCHANGED <<importVars, contentItemVars, retryVars, signalVars, stageVars,
                   exportVars, mapVars, migrateVars, furtherVars>>

NextClosure == GetStatesAsync \/ \E i \in 1..nItems : FetchByIdResponds(i)

SpecClosure == InitClosure /\ [][NextClosure]_vars /\ WF_vars(NextClosure)

NotFoundIsNoFailure ==
    /\ call # "threw"
    /\ \A id \in 1..Len(referencedIds) :
            referencedIds[id] = "404" => id \notin errorLog
    /\ call = "returned" =>
        /\ \A id \in 1..Len(referencedIds) : status[id] = "settled"
        /\ DOMAIN statesById = 1..Len(referencedIds)
        /\ \A id \in 1..Len(referencedIds) :
            /\ referencedIds[id] = "404" =>
                    /\ resultItems[id].state = "404"
                    /\ statesById[id].state = "doesNotExists"
            /\ referencedIds[id] = "entity" =>
                    /\ statesById[id].state = "exists"
                    /\ statesById[id].entity = [kind |-> referenceKind, id |-> id]

FetchContinues ==
    \A id \in 1..(MaxItems + 1) :
        (call = "pending" /\ id \in 1..nItems) ~> (id \in 1..nItems /\ status[id] = "settled")

(***************************************************************************)
(* C25: a 404 for a referenced id is not a failure: no error is logged for *)
(* the id, the call does not throw and the ids after it are still fetched; *)
(* in the lookup the id has the state doesNotExists, and every id that was *)
(* fetched has the state exists with its entity.                           *)
(***************************************************************************)
C25_NotFoundIsNoFailure == []NotFoundIsNoFailure /\ FetchContinues

C25_Witness ==
    /\ call = "returned"
    /\ Len(referencedIds) = 3
    /\ referencedIds = <<"entity", "404", "entity">>
    /\ statesById[2].state = "doesNotExists"
    /\ statesById[3].state = "exists"

(***************************************************************************)
(* Part X : mapping of the export items to migration items                 *)
(* (export-manager.ts getMigrationItems, and the export transforms of the  *)
(* reference elements).                                                    *)
(*                                                                         *)
(* The export context is fixed: items and assets 1 and 3 exist in the      *)
(* source, 2 does not; the taxonomy group 0 has the terms 1 and 4, term 1  *)
(* has the term 2, term 2 has the term 3; no term has the id 5.            *)
(***************************************************************************)
MaxRefs == 3

ReferenceIds == {1, 2, 3}

TermIds == {1, 2, 3, 4, 5}

\* context.getItemStateInSourceEnvironment(id).item / getAssetStateInSourceEnvironment(id).asset
EntityExists(id) == id \in {1, 3}

CodenameOf(kind, id) == <<kind, id>>

\* environmentData.taxonomies: the declared group, as id -> terms
TaxonomyGroup == 0

TermsOf(node) ==
    CASE node = 0 -> <<1, 4>>
      [] node = 1 -> <<2>>
      [] node = 2 -> <<3>>
      [] OTHER    -> <<>>

Undefined == -1

\* Array.prototype.find: the first element the predicate accepts
Find(seq, Accepts(_)) ==
    LET accepted == {k \in 1..Len(seq) : Accepts(seq[k])} IN
    IF accepted = {} THEN Undefined
    ELSE seq[CHOOSE k \in accepted : \A j \in accepted : k <= j]

\* findTaxonomy(termId, taxonomy): the node itself when it has the id, else
\* taxonomy.terms.find((term) => findTaxonomy(termId, term))
RECURSIVE findTaxonomy(_, _)
findTaxonomy(termId, node) ==
    IF node = termId THEN node
    ELSE Find(TermsOf(node), LAMBDA term : findTaxonomy(termId, term) # Undefined)

\* What a transform gives: a value, or the error it throws.
Value(v) == [ok |-> TRUE, value |-> v]

Thrown == [ok |-> FALSE, value |-> <<>>]

MapSeq(seq, F(_)) == [k \in 1..Len(seq) |-> F(seq[k])]

modularContentThrowing(value) ==
    IF \A k \in 1..Len(value) : EntityExists(value[k])
    THEN Value(MapSeq(value, LAMBDA id : CodenameOf("item", id)))
    ELSE Thrown

\* exportTransforms.modular_content: ids without an item map to undefined,
\* which is filtered out
modular_content(value) ==
    Value(SelectSeq(MapSeq(value, LAMBDA id : IF EntityExists(id)
                                               THEN CodenameOf("item", id)
                                               ELSE <<"undefined", 0>>),
                    LAMBDA ref : ref # <<"undefined", 0>>))

assetDropping(value) ==
    Value(MapSeq(SelectSeq(value, EntityExists), LAMBDA id : CodenameOf("asset", id)))

\* exportTransforms.asset: an id without an asset throws
asset(value) ==
    IF \A k \in 1..Len(value) : EntityExists(value[k])
    THEN Value(MapSeq(value, LAMBDA id : CodenameOf("asset", id)))
    ELSE Thrown

\* exportTransforms.subpages: an id without an item throws
subpages(value) ==
    IF \A k \in 1..Len(value) : EntityExists(value[k])
    THEN Value(MapSeq(value, LAMBDA id : CodenameOf("item", id)))
    ELSE Thrown

\* exportTransforms.taxonomy: the term findTaxonomy gives, by its codename;
\* no term throws
taxonomy(value) ==
    IF \A k \in 1..Len(value) : findTaxonomy(value[k], TaxonomyGroup) # Undefined
    THEN Value(MapSeq(value, LAMBDA id : CodenameOf("term", findTaxonomy(id, TaxonomyGroup))))
    ELSE Thrown

Element(type, value) == [type |-> type, value |-> value]

\* exportTransforms[typeElement.type](...)
ExportTransform(element) ==
    CASE element.type = "modular_content" -> modular_content(element.value)
      [] element.type = "asset"           -> asset(element.value)
      [] element.type = "subpages"        -> subpages(element.value)
      [] element.type = "taxonomy"        -> taxonomy(element.value)

ReferenceElements ==
    {Element(t, v) : t \in {"modular_content", "asset", "subpages"},
                     v \in SeqsUpTo(ReferenceIds, MaxRefs)}
    \cup {Element("taxonomy", v) : v \in SeqsUpTo(TermIds, MaxRefs)}

\* mapToMigrationItem: every element is transformed; an error of any of
\* them is caught, logged, and null is returned for the item
mapToMigrationItemRethrowing(item, i) ==
    [ok |-> \A j \in 1..Len(mapItems) :
                \A k \in 1..Len(mapItems[j]) : ExportTransform(mapItems[j][k]).ok,
     of |-> i,
     elements |-> MapSeq(item, LAMBDA e : ExportTransform(e).value)]

mapToMigrationItem(item, i) ==
    [ok |-> \A k \in 1..Len(item) : ExportTransform(item[k]).ok,
     of |-> i,
     elements |-> MapSeq(item, LAMBDA e : ExportTransform(e).value)]

MigrationItemOf(m) == [of |-> m.of, elements |-> m.elements]

\* one export item with one reference element of any value
InitTransform ==
    /\ \E e \in ReferenceElements : mapItems = << <<e>> >>
    /\ mappedItems = <<>>
    /\ mapErrorLog = <<>>
    /\ mapPc = "idle"
    /\ HarnessIdle
    /\ ImportIdle
    /\ ContentItemsIdle
    /\ RetryIdle
    /\ NoSignal
    /\ NoStage
    /\ ExportIdle
    /\ ClosureIdle
    /\ MigrateIdle
    /\ FurtherIdle

\* the export items of a run: each a sequence of elements
ItemsToMap ==
    {<<Element("modular_content", <<1, 2>>)>>,
     <<Element("asset", <<1>>)>>,
     <<Element("asset", <<2>>)>>,
     <<Element("taxonomy", <<4>>)>>,
     <<Element("taxonomy", <<5>>)>>,
     <<Element("modular_content", <<3>>), Element("subpages", <<3, 2>>)>>}

InitMapping ==
    /\ mapItems \in SeqsUpTo(ItemsToMap, MaxItems)
    /\ mappedItems = <<>>
    /\ mapErrorLog = <<>>
    /\ mapPc = "idle"
    /\ HarnessIdle
    /\ ImportIdle
    /\ ContentItemsIdle
    /\ RetryIdle
    /\ NoSignal
    /\ NoStage
    /\ ExportIdle
    /\ ClosureIdle
    /\ MigrateIdle
    /\ FurtherIdle

\* getMigrationItems: exportItems.map(mapToMigrationItem).filter(item => item !== null)
GetMigrationItems ==
    /\ mapPc = "idle"
    /\ LET all == [i \in 1..Len(mapItems) |-> mapToMigrationItem(mapItems[i], i)]
       IN /\ mappedItems' = MapSeq(SelectSeq(all, LAMBDA m : m.ok), MigrationItemOf)
          /\ mapErrorLog' = MapSeq(SelectSeq(all, LAMBDA m : ~m.ok), LAMBDA m : m.of)
    /\ mapPc' = "mapped"
    /\ UNCHANGED mapItems
    /\ UNCHANGED <<harnessVars, importVars, contentItemVars, retryVars, signalVars,
                   stageVars, exportVars, closureVars, migrateVars,
                   furtherVars>>

NextMap == GetMigrationItems

SpecTransform == InitTransform /\ [][NextMap]_vars

SpecMapping == InitMapping /\ [][NextMap]_vars

(***************************************************************************)
(* C26: an error raised while one export item is mapped is logged for that *)
(* item and the item is left out of the migration items; every other       *)
(* export item is mapped and present, in the original order.               *)
(***************************************************************************)
MappingThrows(i) == \E k \in 1..Len(mapItems[i]) : ~ExportTransform(mapItems[i][k]).ok

C26_MappingErrorsPerItem ==
    mapPc = "mapped" =>
        /\ MapSeq(mappedItems, LAMBDA m : m.of)
                = SelectSeq(SeqOfItems(Len(mapItems)), LAMBDA i : ~MappingThrows(i))
        /\ mapErrorLog = SelectSeq(SeqOfItems(Len(mapItems)), MappingThrows)
        /\ \A k \in 1..Len(mappedItems) :
                Len(mappedItems[k].elements) = Len(mapItems[mappedItems[k].of])

C26_Witness ==
    /\ mapPc = "mapped"
    /\ Len(mapItems) = 3
    /\ MappingThrows(2)
    /\ MapSeq(mappedItems, LAMBDA m : m.of) = <<1, 3>>
    /\ mapErrorLog = <<2>>

(***************************************************************************)
(* C27: the export of a modular_content element raises no error, drops     *)
(* every referenced id whose item does not exist in the source, and gives  *)
(* the other references as codenames in their original relative order.     *)
(***************************************************************************)
TheElement == mapItems[1][1]

ExistingInOrder(value) == SelectSeq(value, EntityExists)

C27_ModularContentDropsMissing ==
    mapPc = "mapped" /\ TheElement.type = "modular_content" =>
        /\ mapErrorLog = <<>>
        /\ Len(mappedItems) = 1
        /\ mappedItems[1].elements[1]
                = [k \in 1..Len(ExistingInOrder(TheElement.value)) |->
                        <<"item", ExistingInOrder(TheElement.value)[k]>>]

C27_Witness ==
    /\ mapPc = "mapped"
    /\ TheElement = [type |-> "modular_content", value |-> <<3, 2, 1>>]
    /\ mappedItems[1].elements[1] = << <<"item", 3>>, <<"item", 1>> >>

(***************************************************************************)
(* C28: the export of an asset element, and of a subpages element, that    *)
(* references an id without an entity in the source raises an error: no    *)
(* value is given for the element, the reference is not dropped.           *)
(***************************************************************************)
ReferencesMissing(value) == \E k \in 1..Len(value) : value[k] \notin {1, 3}

C28_AssetAndSubpagesThrow ==
    mapPc = "mapped" /\ TheElement.type \in {"asset", "subpages"} =>
        IF ReferencesMissing(TheElement.value)
        THEN mappedItems = <<>> /\ mapErrorLog = <<1>>
        ELSE /\ mapErrorLog = <<>>
             /\ Len(mappedItems[1].elements[1]) = Len(TheElement.value)

C28_Witness ==
    /\ mapPc = "mapped"
    /\ TheElement = [type |-> "asset", value |-> <<1, 2>>]
    /\ mappedItems = <<>>
    /\ mapErrorLog = <<1>>

(***************************************************************************)
(* C29: the export of a taxonomy element gives, for every referenced term  *)
(* id, the codename of the term of the declared group that has exactly     *)
(* that id, at whatever depth the term is nested, and raises an error when *)
(* no term of the group has the id.                                        *)
(***************************************************************************)
TermsOfGroup == {1, 2, 3, 4}

C29_TaxonomyTermById ==
    mapPc = "mapped" /\ TheElement.type = "taxonomy" =>
        IF \A k \in 1..Len(TheElement.value) : TheElement.value[k] \in TermsOfGroup
        THEN /\ mapErrorLog = <<>>
             /\ Len(mappedItems) = 1
             /\ mappedItems[1].elements[1]
                    = [k \in 1..Len(TheElement.value) |-> <<"term", TheElement.value[k]>>]
        ELSE mappedItems = <<>> /\ mapErrorLog = <<1>>

(***************************************************************************)
(* Part XI : migrateAsync: export, mapMigrationData, import.               *)
(***************************************************************************)
\* MigrationData the export can give
ExportedItems == {"a", "b", "c"}

MigrationDataOf(items) == [items |-> items]

ExportedData == {MigrationDataOf(items) : items \in SeqsUpTo(ExportedItems, MaxItems)}

\* the functions a caller may supply as mapMigrationData
MapFunctions == {"identity", "withoutItems", "firstItemOnly", "throws"}

ApplyMap(f, data) ==
    CASE f = "identity"      -> data
      [] f = "withoutItems"  -> MigrationDataOf(<<>>)
      [] f = "firstItemOnly" -> IF data.items = <<>> THEN data
                                ELSE MigrationDataOf(<<Head(data.items)>>)
      [] OTHER               -> data

Event(what, data) == [what |-> what, data |-> data]

NoData == MigrationDataOf(<<>>)

ImportDataUnmapped(f, migrationData) == migrationData

\* data: config.mapMigrationData(migrationData)
ImportData(f, migrationData) == ApplyMap(f, migrationData)

InitMigrate ==
    /\ mapMigrationData \in MapFunctions
    /\ migratePc = "idle"
    /\ migrateLog = <<>>
    /\ HarnessIdle
    /\ ImportIdle
    /\ ContentItemsIdle
    /\ RetryIdle
    /\ NoSignal
    /\ NoStage
    /\ ExportIdle
    /\ ClosureIdle
    /\ MapIdle
    /\ FurtherIdle

MigrateFrame ==
    UNCHANGED <<harnessVars, importVars, contentItemVars, retryVars, signalVars,
                stageVars, exportVars, closureVars, mapVars, mapMigrationData,
                furtherVars>>

\* migrateAsync is called: exportAsync is called and awaited
MigrateAsync ==
    /\ migratePc = "idle"
    /\ migratePc' = "exporting"
    /\ migrateLog' = Append(migrateLog, Event("exportCalled", NoData))
    /\ MigrateFrame

\* exportAsync throws: func rejects, nothing more is done
ExportFails ==
    /\ migratePc = "exporting"
    /\ migratePc' = "failed"
    /\ migrateLog' = Append(migrateLog, Event("exportFailed", NoData))
    /\ MigrateFrame

\* exportAsync returns the migration data: mapMigrationData is applied to
\* it and importAsync is called with what it gave (nothing is called when
\* the function throws)
ExportReturns ==
    /\ migratePc = "exporting"
    /\ \E migrationData \in ExportedData :
        LET returned == Append(migrateLog, Event("exportReturned", migrationData))
            mapped   == Append(returned, Event("mapMigrationData", migrationData))
        IN IF mapMigrationData = "throws"
           THEN /\ migratePc' = "failed"
                /\ migrateLog' = mapped
           ELSE /\ migratePc' = "importing"
                /\ migrateLog' = Append(mapped,
                        Event("importCalled", ImportData(mapMigrationData, migrationData)))
    /\ MigrateFrame

\* importAsync returns or throws
ImportEnds ==
    /\ migratePc = "importing"
    /\ \E outcome \in {"importReturned", "importFailed"} :
        /\ migratePc' = IF outcome = "importReturned" THEN "done" ELSE "failed"
        /\ migrateLog' = Append(migrateLog, Event(outcome, NoData))
    /\ MigrateFrame

NextMigrate == MigrateAsync \/ ExportFails \/ ExportReturns \/ ImportEnds

SpecMigrate == InitMigrate /\ [][NextMigrate]_vars /\ WF_vars(NextMigrate)

(***************************************************************************)
(* C30: in migrate the import is called only after the export has          *)
(* returned; between the two mapMigrationData is applied exactly once, to  *)
(* the exported data; the import is given what the function returned; and  *)
(* when the export fails the import is never called.                       *)
(***************************************************************************)
EventsOf(what) == {k \in 1..Len(migrateLog) : migrateLog[k].what = what}

ExportThenMapThenImport ==
    /\ \A k \in EventsOf("importCalled") :
        /\ k >= 3
        /\ migrateLog[k - 2].what = "exportReturned"
        /\ migrateLog[k - 1] = [what |-> "mapMigrationData", data |-> migrateLog[k - 2].data]
        /\ migrateLog[k].data = ApplyMap(mapMigrationData, migrateLog[k - 2].data)
    /\ Cardinality(EventsOf("exportReturned")) <= 1
    /\ Cardinality(EventsOf("importCalled")) <= 1
    /\ Cardinality(EventsOf("mapMigrationData")) = Cardinality(EventsOf("exportReturned"))
    /\ \A k \in EventsOf("mapMigrationData") : migrateLog[k - 1].what = "exportReturned"
    /\ EventsOf("exportFailed") # {} => EventsOf("importCalled") = {}

C30_ExportMapImport == []ExportThenMapThenImport /\ [](migratePc = "failed" => [](migratePc = "failed"))

C30_Witness ==
    /\ migratePc = "done"
    /\ mapMigrationData = "firstItemOnly"
    /\ \E k \in EventsOf("importCalled") :
        /\ migrateLog[k - 2].data = [items |-> <<"b", "a">>]
        /\ migrateLog[k].data = [items |-> <<"b">>]

(***************************************************************************)
(* Further properties of the language-variant import (specification Spec). *)
(***************************************************************************)
\* The calls by which the workflow driver (setWorkflowOfLanguageVariantAsync)
\* acts for version v: every change of workflow or publish made for it.
DriverCallsOf(v) ==
    {k \in CallIndexes :
        calls[k].version = v /\ calls[k].op \in {"changeWorkflow", "publish"}}

DriverIssuesAsStepKind(v) ==
    LET D == DriverCallsOf(v)
    IN CASE isPublishedStepByCodename(v.step) -> TRUE
         [] isScheduledStepByCodename(v.step) -> D = {}
         [] OTHER ->
                /\ Cardinality(D) <= 1
                /\ result = "done" => Cardinality(D) = 1
                /\ \A k \in D :
                    /\ calls[k].op = "changeWorkflow"
                    /\ calls[k].step =
                          IF isArchivedStepByCodename(v.step) THEN ArchivedStep ELSE v.step

\* C32: the workflow driver issues exactly the operation the kind of the
\* version's step determines: for the archived step one change of workflow
\* to the archived step, for the scheduled step no call at all, for any
\* other step that is not the published one a single change of workflow to
\* the named step.
C32_DriverByStepKind ==
    \A v \in {publishedVersion, draftVersion} \ {NoVersion} : DriverIssuesAsStepKind(v)

C32_Witness ==
    /\ result = "done"
    /\ draftVersion # NoVersion
    /\ isArchivedStepByCodename(draftVersion.step)
    /\ \E k \in DriverCallsOf(draftVersion) :
        calls[k].op = "changeWorkflow" /\ calls[k].step = ArchivedStep
    /\ publishedVersion # NoVersion

\* A createNewVersion call is awaited: the target is as it was when the call
\* was issued.
NewVersionAwaited ==
    /\ result = "running"
    /\ calls # <<>>
    /\ calls[Len(calls)].op = "createNewVersion"
    /\ calls[Len(calls)].outcome = "pending"

\* C37: createNewVersion is issued only while the variant in the target is
\* in the published state (published, with no newer draft version); in
\* particular not by the draft version's import after the published
\* version's publish was refused with a swallowed bad-publish error.
C37_NewVersionOnlyWhilePublished ==
    NewVersionAwaited => target.pub /\ target.draft = "none"

(***************************************************************************)
(* Further properties of the run of the language variant importer          *)
(* (specification SpecRun).                                                *)
(***************************************************************************)
\* No call is issued for an item without a prepared content item: its
\* processAsync throws 'Missing content item' at once.
NoCallWithoutContentItem ==
    ~preparedContentItem =>
        /\ calls = <<>>
        /\ result # "idle" => result = "failed" /\ error = "missingContentItem"

MissingContentItemFailed ==
    result = "failed" /\ error = "missingContentItem" /\ Running # {}

\* C38: no upsert and no workflow operation is issued for a migration item
\* whose content item was not prepared by the content item importer: the
\* item fails with the 'Missing content item' error before any call, the
\* error is recorded as the item's result, and the other items of the run
\* are imported all the same.
C38_MissingContentItemFailsItemOnly ==
    /\ [](NoCallWithoutContentItem /\ AllItemsHaveResults)
    /\ [][MissingContentItemFailed => RecordedAndNextStarted]_vars
    /\ (MissingContentItemFailed ~> call = "returned")

\* An item without a content item has just failed, after an item that was
\* imported and with another one still to come.
C38_Witness ==
    /\ MissingContentItemFailed
    /\ calls = <<>>
    /\ queue # <<>>
    /\ \E i \in 1..nItems :
        requests[i].promise = "fulfilled" /\ requests[i].value.state = "valid"

(***************************************************************************)
(* Further properties of the state lookups (specification SpecClosure).    *)
(***************************************************************************)
\* C39: in the lookup built from the fetch an id has the state
\* doesNotExists only if the source answered 404 for it; an id whose fetch
\* failed with any other error is never recorded as doesNotExists (and so
\* never makes a modular_content reference to it disappear).
C39_DoesNotExistOnlyFor404 ==
    call = "returned" =>
        \A id \in 1..Len(referencedIds) :
            statesById[id].state = "doesNotExists" => referencedIds[id] = "404"

\* context.getItemStateInSourceEnvironment(id) /
\* getAssetStateInSourceEnvironment(id): findRequired over the states
InvalidState == [id |-> 0, entity |-> NoEntity, state |-> "invalidState"]

GetStateInSourceEnvironment(id) ==
    LET found == {k \in DOMAIN statesById : statesById[k].id = id}
    IN IF found = {} THEN InvalidState
       ELSE statesById[CHOOSE k \in found : \A j \in found : k <= j]

\* C40: the lookups of the export context are total over the reference
\* closure: once they are built, the item lookup returns a state, exists or
\* doesNotExists, for the id of every prepared export item and for every
\* item id extracted from the elements, and the asset lookup for every
\* extracted asset id; no lookup of such an id throws 'Invalid state'.
C40_LookupsTotalOverClosure ==
    call = "returned" =>
        \A id \in extractedIds \cup preparedIds :
            /\ GetStateInSourceEnvironment(id).id = id
            /\ GetStateInSourceEnvironment(id).state \in {"exists", "doesNotExists"}

\* the lookup of the items is built; one of the prepared items is referenced
\* by no element, one referenced item is not in the source
C40_Witness ==
    /\ call = "returned"
    /\ referenceKind = "item"
    /\ extractedIds = {1, 2}
    /\ preparedIds = {1, 3}
    /\ GetStateInSourceEnvironment(3).state = "exists"
    /\ GetStateInSourceEnvironment(2).state = "doesNotExists"

(***************************************************************************)
(* The progress of processItemsAsync (specification SpecHarness).          *)
(***************************************************************************)
Completed == {i \in 1..nItems : status[i] = "settled"}

\* the prefix logged at the k-th completion (the first prefix is the one
\* logged before any item has finished)
PrefixOfCompletion(k) == prefixes[k + 1]

\* C35: every completion of an item emits the percentage prefix
\* round(processedCount / total * 100), processedCount being the number of
\* items completed so far, this one included, for every parallelLimit and
\* also when items fail; the percentages never decrease, never exceed 100,
\* and the last completion emits 100%.
C35_ProgressPerCompletion ==
    call # "idle" /\ nItems > 0 =>
        /\ Len(prefixes) = 1 + Cardinality(Completed)
        /\ \A k \in 1..Cardinality(Completed) :
            /\ PrefixOfCompletion(k) = (200 * k + nItems) \div (2 * nItems)
            /\ PrefixOfCompletion(k) >= prefixes[k]
            /\ PrefixOfCompletion(k) <= 100
        /\ Cardinality(Completed) = nItems => prefixes[Len(prefixes)] = 100

(***************************************************************************)
(* Part XII : the assets importer (assetsImporter: getAssetsToUpload,      *)
(* getAssetsToEdit, editAssets, uploadAssetsAsync, importAsync).           *)
(*                                                                         *)
(* The import context and the asset comparer are inputs: for each asset of *)
(* the snapshot the state of its codename in the target, and, for an asset *)
(* that exists there, what shouldUpdateAsset and shouldReplaceBinaryFile   *)
(* return. The target has the language "en"; "xx" is a language of the     *)
(* source only.                                                            *)
(***************************************************************************)
MaxAssets == 2

\* importContext.environmentData.languages
TargetLanguages == {"en"}

\* asset.descriptions, by their language codenames (undefined is mapped to
\* no description by mapAssetDescriptions)
DescriptionShapes == {<<>>, <<"en">>, <<"xx", "en">>}

MigrationAsset(state, update, replace, descriptions) ==
    [state |-> state, shouldUpdateAsset |-> update,
     shouldReplaceBinaryFile |-> replace, descriptions |-> descriptions]

AssetShapes ==
    {MigrationAsset("doesNotExists", FALSE, FALSE, d) : d \in DescriptionShapes}
    \cup {MigrationAsset("exists", FALSE, FALSE, <<"en">>)}
    \cup {MigrationAsset("exists", TRUE, r, d) : r \in BOOLEAN, d \in DescriptionShapes}

\* filterInvalidLanguages: the description's language is one of the target
filterInvalidLanguagesNone(language) == TRUE
filterInvalidLanguages(language) == language \in TargetLanguages

\* descriptions: asset.descriptions?.filter(filterInvalidLanguages)
FilteredDescriptions(migrationAsset) ==
    SelectSeq(migrationAsset.descriptions, LAMBDA language : filterInvalidLanguages(language))

\* the filter of getAssetsToUpload
isAssetToUpload(migrationAsset) == migrationAsset.state = "doesNotExists"

\* getAssetsToEdit gives undefined for an asset that does not exist in the
\* target or that shouldUpdateAsset refuses
isAssetToEditWhateverComparer(migrationAsset) == migrationAsset.state # "doesNotExists"
isAssetToEdit(migrationAsset) ==
    migrationAsset.state # "doesNotExists" /\ migrationAsset.shouldUpdateAsset

getAssetsToUpload ==
    SelectSeq(SeqOfItems(Len(migrationAssets)), LAMBDA i : isAssetToUpload(migrationAssets[i]))

getAssetsToEdit ==
    SelectSeq(SeqOfItems(Len(migrationAssets)), LAMBDA i : isAssetToEdit(migrationAssets[i]))

\* file_reference: uploadedBinaryFile ?? undefined
NoFileReference == 0

AssetCall(op, i, reference, descriptions) ==
    [op |-> op, asset |-> i, file_reference |-> reference,
     descriptions |-> descriptions, outcome |-> "pending"]

\* parallelLimit of editAssets and of uploadAssetsAsync
AssetLimit(queue_) == IF queue_ = "uploading" THEN 3 ELSE 1

QueueOf(i) == IF isAssetToUpload(migrationAssets[i]) THEN "uploading" ELSE "editing"

RunningAssets(ph, queue_) ==
    {i \in DOMAIN ph : ph[i] \in {"binary", "request"} /\ QueueOf(i) = queue_}

QueuedAssets(ph, queue_) == {i \in DOMAIN ph : ph[i] = "queued" /\ QueueOf(i) = queue_}

\* the request that follows the upload of the binary file (or that is the
\* first one of an edit that keeps the file)
AssetRequest(i, reference) ==
    AssetCall(IF QueueOf(i) = "uploading" THEN "addAsset" ELSE "upsertAsset", i, reference,
              FilteredDescriptions(migrationAssets[i]))

\* p-limit starts the queued assets in order while fewer than the limit are
\* running; processAsync of an asset runs to its first call: the upload of
\* the binary file, or the upsert of an edit that keeps the file.
RECURSIVE StartQueued(_, _, _)
StartQueued(ph, cs, queue_) ==
    IF QueuedAssets(ph, queue_) = {}
       \/ Cardinality(RunningAssets(ph, queue_)) >= AssetLimit(queue_)
    THEN [phase |-> ph, calls |-> cs]
    ELSE LET i == CHOOSE q \in QueuedAssets(ph, queue_) :
                        \A r \in QueuedAssets(ph, queue_) : q <= r
             binary == queue_ = "uploading" \/ migrationAssets[i].shouldReplaceBinaryFile
         IN StartQueued([ph EXCEPT ![i] = IF binary THEN "binary" ELSE "request"],
                        Append(cs, IF binary
                                   THEN AssetCall("uploadBinaryFile", i, NoFileReference, <<>>)
                                   ELSE AssetRequest(i, NoFileReference)),
                        queue_)

\* uploadAssetsAsync(getAssetsToUpload()): an empty queue returns at once
EnterUploading(ph, cs) ==
    IF getAssetsToUpload = <<>>
    THEN [pc |-> "done", phase |-> ph, calls |-> cs]
    ELSE LET queued == [i \in DOMAIN ph |->
                            IF i \in Range(getAssetsToUpload) THEN "queued" ELSE ph[i]]
             started == StartQueued(queued, cs, "uploading")
         IN [pc |-> "uploading", phase |-> started.phase, calls |-> started.calls]

\* editAssets(getAssetsToEdit())
EnterEditing(ph, cs) ==
    IF getAssetsToEdit = <<>>
    THEN EnterUploading(ph, cs)
    ELSE LET queued == [i \in DOMAIN ph |->
                            IF i \in Range(getAssetsToEdit) THEN "queued" ELSE ph[i]]
             started == StartQueued(queued, cs, "editing")
         IN [pc |-> "editing", phase |-> started.phase, calls |-> started.calls]

InitAssets ==
    /\ migrationAssets \in SeqsUpTo(AssetShapes, MaxAssets)
    /\ assetHarness \in {"utils", "helper"}
    /\ assetsToEdit = <<>>
    /\ assetsToUpload = <<>>
    /\ assetPhase = [i \in 1..Len(migrationAssets) |-> "none"]
    /\ assetCalls = <<>>
    /\ assetPc = "idle"
    /\ HarnessIdle
    /\ ImportIdle
    /\ ContentItemsIdle
    /\ RetryIdle
    /\ NoSignal
    /\ NoStage
    /\ ExportIdle
    /\ ClosureIdle
    /\ MapIdle
    /\ MigrateIdle
    /\ RoundTripIdle
    /\ RichTextIdle

AssetsFrame ==
    UNCHANGED <<harnessVars, importVars, contentItemVars, retryVars, signalVars,
                stageVars, exportVars, closureVars, mapVars, migrateVars,
                migrationAssets, assetHarness, roundTripVars, richTextVars>>

\* importAsync of the assets importer is called
ImportAssetsAsync ==
    /\ assetPc = "idle"
    /\ LET entered == EnterEditing(assetPhase, assetCalls)
       IN /\ assetPc' = entered.pc
          /\ assetPhase' = entered.phase
          /\ assetCalls' = entered.calls
          /\ assetsToEdit' = getAssetsToEdit
          /\ assetsToUpload' = IF entered.pc = "editing" THEN assetsToUpload
                               ELSE getAssetsToUpload
    /\ AssetsFrame

\* The pending call k is answered. A binary file that was uploaded gives the
\* file reference the asset's request is then issued with; an error ends the
\* asset's processAsync (the helper's processItemsAsync then throws, the
\* other one records it); p-limit starts the next queued asset; when the
\* queue is through, the edits are followed by the uploads.
AssetCallResponds(k, outcome) ==
    /\ k \in 1..Len(assetCalls)
    /\ assetCalls[k].outcome = "pending"
    /\ LET c        == assetCalls[k]
           i        == c.asset
           answered == [assetCalls EXCEPT ![k].outcome = outcome]
           goesOn   == outcome = "ok" /\ c.op = "uploadBinaryFile"
           ph       == [assetPhase EXCEPT ![i] =
                            IF outcome # "ok" THEN "failed"
                            ELSE IF goesOn THEN "request" ELSE "done"]
           cs       == IF goesOn THEN Append(answered, AssetRequest(i, k)) ELSE answered
           started  == StartQueued(ph, cs, QueueOf(i))
           through  == /\ QueuedAssets(started.phase, QueueOf(i)) = {}
                       /\ RunningAssets(started.phase, QueueOf(i)) = {}
           next     == IF assetPc = "editing"
                       THEN EnterUploading(started.phase, started.calls)
                       ELSE [pc |-> "done", phase |-> started.phase, calls |-> started.calls]
       IN IF assetPc \notin {"editing", "uploading"}
          THEN /\ assetPc' = assetPc
               /\ assetPhase' = started.phase
               /\ assetCalls' = started.calls
               /\ UNCHANGED assetsToUpload
          ELSE IF outcome # "ok" /\ assetHarness = "helper"
          THEN /\ assetPc' = "failed"
               /\ assetPhase' = started.phase
               /\ assetCalls' = started.calls
               /\ UNCHANGED assetsToUpload
          ELSE IF through
          THEN /\ assetPc' = next.pc
               /\ assetPhase' = next.phase
               /\ assetCalls' = next.calls
               /\ assetsToUpload' = IF assetPc = "editing" THEN getAssetsToUpload
                                    ELSE assetsToUpload
          ELSE /\ assetPc' = assetPc
               /\ assetPhase' = started.phase
               /\ assetCalls' = started.calls
               /\ UNCHANGED assetsToUpload
    /\ UNCHANGED assetsToEdit
    /\ AssetsFrame

NextAssets ==
    \/ ImportAssetsAsync
    \/ \E k \in 1..(3 * MaxAssets + 3), outcome \in {"ok", "error"} : AssetCallResponds(k, outcome)

SpecAssets == InitAssets /\ [][NextAssets]_vars /\ WF_vars(NextAssets)

AssetIndexes == 1..Len(migrationAssets)

CallsOfAsset(i) == {k \in 1..Len(assetCalls) : assetCalls[k].asset = i}

\* C33: every asset of the snapshot is in at most one of the two queues: in
\* toUpload iff its state in the target is doesNotExists, in toEdit iff it
\* exists there and shouldUpdateAsset is true; an asset that exists and
\* that shouldUpdateAsset refuses is in neither queue and no API call is
\* made for it.
C33_AssetInAtMostOneQueue ==
    assetPc # "idle" =>
        \A i \in AssetIndexes :
            LET a == migrationAssets[i] IN
            /\ ~(i \in Range(assetsToEdit) /\ i \in Range(assetsToUpload))
            /\ i \in Range(assetsToEdit) <=> (a.state = "exists" /\ a.shouldUpdateAsset)
            /\ i \in Range(assetsToUpload) => a.state = "doesNotExists"
            /\ (assetPc \in {"uploading", "done"} /\ a.state = "doesNotExists")
                    => i \in Range(assetsToUpload)
            /\ (a.state = "exists" /\ ~a.shouldUpdateAsset) =>
                    /\ CallsOfAsset(i) = {}
                    /\ assetPhase[i] = "none"
            /\ CallsOfAsset(i) # {} => i \in Range(assetsToEdit) \/ i \in Range(assetsToUpload)

\* the import is done: an asset that needed no update was left alone, and an
\* asset that was not in the target was uploaded
C33_Witness ==
    /\ assetPc = "done"
    /\ Len(migrationAssets) = 2
    /\ migrationAssets[1].state = "exists" /\ ~migrationAssets[1].shouldUpdateAsset
    /\ CallsOfAsset(1) = {}
    /\ assetsToUpload = <<2>>
    /\ assetPhase[2] = "done"

BinaryUploadsOf(i) ==
    {k \in CallsOfAsset(i) : assetCalls[k].op = "uploadBinaryFile"}

\* addAsset call k follows the completed upload of the asset's binary file
\* and carries the file reference that upload returned
AfterBinaryUpload(k) ==
    \E j \in BinaryUploadsOf(assetCalls[k].asset) :
        /\ j < k
        /\ assetCalls[j].outcome = "ok"
        /\ assetCalls[k].file_reference = j

\* the descriptions of the request are those of the asset whose language
\* exists in the target, in their order
OnlyTargetLanguages(k) ==
    /\ \A d \in 1..Len(assetCalls[k].descriptions) :
            assetCalls[k].descriptions[d] \in TargetLanguages
    /\ assetCalls[k].descriptions =
            SelectSeq(migrationAssets[assetCalls[k].asset].descriptions,
                      LAMBDA language : language \in TargetLanguages)

\* C34: for every asset that is uploaded, uploadBinaryFile has completed
\* before addAsset is issued and addAsset carries the file_reference it
\* returned; when the upload of the binary file fails, addAsset is never
\* issued for the asset; the descriptions sent are those of the languages
\* that exist in the target.
C34_BinaryThenAddAsset ==
    /\ \A k \in 1..Len(assetCalls) :
        assetCalls[k].op = "addAsset" =>
            /\ AfterBinaryUpload(k)
            /\ OnlyTargetLanguages(k)
            /\ Cardinality(BinaryUploadsOf(assetCalls[k].asset)) = 1
    /\ \A i \in AssetIndexes :
        /\ (\E j \in BinaryUploadsOf(i) : assetCalls[j].outcome = "error") =>
                \A k \in CallsOfAsset(i) : assetCalls[k].op = "uploadBinaryFile"
        /\ (i \in Range(assetsToUpload) /\ assetPhase[i] = "done") =>
                \E k \in CallsOfAsset(i) :
                    assetCalls[k].op = "addAsset" /\ assetCalls[k].outcome = "ok"

\* two assets are uploaded side by side: the upload of the second binary
\* file fails, the first asset is added with the one of its two
\* descriptions whose language the target has
C34_Witness ==
    /\ assetPc \in {"done", "failed"}
    /\ Len(migrationAssets) = 2
    /\ assetsToUpload = <<1, 2>>
    /\ migrationAssets[1].descriptions = <<"xx", "en">>
    /\ assetPhase = <<"done", "failed">>
    /\ Len(assetCalls) = 3
    /\ assetCalls[3].op = "addAsset" /\ assetCalls[3].file_reference = 1
    /\ assetCalls[3].descriptions = <<"en">>
    /\ assetCalls[2].outcome = "error"

(***************************************************************************)
(* Part XIII : the round trip of an element value: the export transform of *)
(* the element (exportTransforms), the import transform of the exported    *)
(* value (importTransforms), and the export transform of what the target   *)
(* then holds. The elements are those whose value refers to nothing else:  *)
(* text, number, date_time, custom and url_slug.                           *)
(*                                                                         *)
(* A JavaScript value is a record: undefined, null, a string or a number.  *)
(***************************************************************************)
MaxNumber == 3

JsUndefined == [kind |-> "undefined", s |-> "", n |-> 0]
JsNull == [kind |-> "null", s |-> "", n |-> 0]
JsString(s) == [kind |-> "string", s |-> s, n |-> 0]
JsNumber(n) == [kind |-> "number", s |-> "", n |-> n]

\* value === undefined || value === null
IsNullish(v) == v.kind \in {"undefined", "null"}

\* value ? ... : ...
IsTruthy(v) ==
    CASE v.kind = "string" -> v.s # ""
      [] v.kind = "number" -> v.n # 0
      [] OTHER -> FALSE

\* value?.toString()
OptionalToString(v) == IF IsNullish(v) THEN JsUndefined ELSE v

\* a ?? b
Coalesce(a, b) == IF IsNullish(a) THEN b ELSE a

\* An element of a language variant, as the management API returns it: the
\* value, the mode of a url slug, the display timezone of a date.
VariantElement(type, value, mode, timezone) ==
    [type |-> type, value |-> value, urlSlugMode |-> mode, displayTimezone |-> timezone]

SourceElements ==
    {VariantElement("text", v, JsNull, JsNull) :
        v \in {JsNull, JsString(""), JsString("a"), JsString("b"), JsString("0")}}
    \cup {VariantElement("custom", v, JsNull, JsNull) :
        v \in {JsNull, JsString(""), JsString("a"), JsString("0")}}
    \cup {VariantElement("number", v, JsNull, JsNull) :
        v \in {JsNull} \cup {JsNumber(n) : n \in 0..MaxNumber}}
    \cup {VariantElement("date_time", v, JsNull, tz) :
        v \in {JsNull, JsString("2024-01-01")},
        tz \in {JsNull, JsString("utc"), JsString("cet")}}
    \cup {VariantElement("url_slug", v, JsString(m), JsNull) :
        v \in {JsString(""), JsString("a"), JsString("b")},
        m \in {"autogenerated", "custom"}}

\* exportTransforms
MigrationElementValue(type, value, mode, timezone) ==
    [type |-> type, value |-> value, mode |-> mode, display_timezone |-> timezone]

ExportTransformOf(e) ==
    CASE e.type = "text" ->
            MigrationElementValue(e.type, OptionalToString(e.value), JsUndefined, JsUndefined)
      [] e.type = "number" ->
            MigrationElementValue(e.type,
                IF IsNullish(e.value) THEN JsUndefined
                ELSE IF e.value = JsNumber(0) THEN JsNumber(0)
                ELSE e.value,
                JsUndefined, JsUndefined)
      [] e.type = "date_time" ->
            MigrationElementValue(e.type, OptionalToString(e.value), JsUndefined,
                                  Coalesce(e.displayTimezone, JsUndefined))
      [] e.type = "custom" ->
            MigrationElementValue(e.type, OptionalToString(e.value), JsUndefined, JsUndefined)
      [] e.type = "url_slug" ->
            MigrationElementValue(e.type, Coalesce(OptionalToString(e.value), JsUndefined),
                                  Coalesce(e.urlSlugMode, JsString("autogenerated")),
                                  JsUndefined)

\* importTransforms: the element contract sent to the target, which keeps
\* what it was sent; the transforms are given the value only
ImportTransformOf(m) ==
    CASE m.type = "text" ->
            VariantElement(m.type, Coalesce(OptionalToString(m.value), JsNull), JsNull, JsNull)
      [] m.type = "number" ->
            VariantElement(m.type, IF IsTruthy(m.value) THEN m.value ELSE JsNull, JsNull, JsNull)
      [] m.type = "date_time" ->
            VariantElement(m.type, Coalesce(OptionalToString(m.value), JsNull), JsNull, JsNull)
      [] m.type = "custom" ->
            VariantElement(m.type, Coalesce(OptionalToString(m.value), JsString("")),
                           JsNull, JsNull)
      [] m.type = "url_slug" ->
            VariantElement(m.type, Coalesce(OptionalToString(m.value), JsString("")),
                           JsString("custom"), JsNull)

InitRoundTrip ==
    /\ sourceElement \in SourceElements
    /\ migrationElement = <<>>
    /\ targetElement = <<>>
    /\ reExportedElement = <<>>
    /\ roundTripPc = "source"
    /\ HarnessIdle
    /\ ImportIdle
    /\ ContentItemsIdle
    /\ RetryIdle
    /\ NoSignal
    /\ NoStage
    /\ ExportIdle
    /\ ClosureIdle
    /\ MapIdle
    /\ MigrateIdle
    /\ AssetsIdle
    /\ RichTextIdle

RoundTripFrame ==
    UNCHANGED <<harnessVars, importVars, contentItemVars, retryVars, signalVars,
                stageVars, exportVars, closureVars, mapVars, migrateVars, assetVars,
                richTextVars, sourceElement>>

\* the element is exported from the source
ExportElement ==
    /\ roundTripPc = "source"
    /\ migrationElement' = ExportTransformOf(sourceElement)
    /\ roundTripPc' = "exported"
    /\ UNCHANGED <<targetElement, reExportedElement>>
    /\ RoundTripFrame

\* the exported element is imported into the fresh target
ImportElement ==
    /\ roundTripPc = "exported"
    /\ targetElement' = ImportTransformOf(migrationElement)
    /\ roundTripPc' = "imported"
    /\ UNCHANGED <<migrationElement, reExportedElement>>
    /\ RoundTripFrame

\* the element the target holds is exported
ExportElementAgain ==
    /\ roundTripPc = "imported"
    /\ reExportedElement' = ExportTransformOf(targetElement)
    /\ roundTripPc' = "reExported"
    /\ UNCHANGED <<migrationElement, targetElement>>
    /\ RoundTripFrame

NextRoundTrip == ExportElement \/ ImportElement \/ ExportElementAgain

SpecRoundTrip == InitRoundTrip /\ [][NextRoundTrip]_vars /\ WF_vars(NextRoundTrip)

\* C31: exporting, importing the snapshot into a fresh environment and
\* exporting again gives the migration data of the first export (here: the
\* same migration element, whatever the element, a number 0 and the mode of
\* a url slug included).
C31_RoundTripKeepsElement ==
    roundTripPc = "reExported" => reExportedElement = migrationElement

(***************************************************************************)
(* Part XIV : the links of a rich text value (processExportRichTextHtml-   *)
(* Value and the link pass of processImportRichTextHtmlValue).             *)
(*                                                                         *)
(* A string is a sequence of tokens, each standing for the characters it   *)
(* is written with; no token of the values below occurs inside another     *)
(* one, so a substring is a run of tokens. The name of the codename        *)
(* attribute is the three tokens data-manager- link -codename. The rich    *)
(* text has no object, no image and no rel, target or href attribute: the  *)
(* other replacements of the import leave it as it is.                     *)
(*                                                                         *)
(* The source has one item, with the id id1; no item has the id id2. The   *)
(* import gave the item the id tid in the target.                          *)
(***************************************************************************)
MaxAnchors == 2

LinkCodenames == {"faq", "link"}

linkCodenameAttributeName == <<"data-manager-", "link", "-codename">>

dataItemIdAttributeName == <<"data-item-id">>

\* <a NAME="VALUE">BODY</a>
AnchorTag(name, value, body) ==
    <<"<a", " ">> \o name \o <<"=\"", value, "\"", ">">> \o body \o <<"</a>">>

\* the content of an anchor: a text, or a text in bold
AnchorBodies == {<<"X">>, <<"<strong>", "X", "</strong>">>}

AnchorShapes == [id : {"id1", "id2"}, body : AnchorBodies]

\* the rich text value: each anchor after some text
RECURSIVE HtmlOf(_)
HtmlOf(anchors) ==
    IF anchors = <<>> THEN <<>>
    ELSE <<"T">> \o AnchorTag(dataItemIdAttributeName, Head(anchors).id, Head(anchors).body)
         \o HtmlOf(Tail(anchors))

\* ---- strings ----
IsSubAt(str, sub, i) ==
    /\ i + Len(sub) - 1 <= Len(str)
    /\ \A k \in 1..Len(sub) : str[i + k - 1] = sub[k]

Least(S) == CHOOSE i \in S : \A j \in S : i <= j

\* str.indexOf(sub), from 1; 0 when there is none
IndexOf(str, sub) ==
    LET S == {i \in 1..Len(str) : IsSubAt(str, sub, i)}
    IN IF S = {} THEN 0 ELSE Least(S)

\* str.replace(sub, by): the first occurrence only
ReplaceFirst(str, sub, by) ==
    LET i == IndexOf(str, sub)
    IN IF i = 0 THEN str
       ELSE SubSeq(str, 1, i - 1) \o by \o SubSeq(str, i + Len(sub), Len(str))

\* str.match(new RegExp(start + '(.+?)' + end)): where the leftmost match
\* starts and ends, [from |-> 0] when there is no match
NoMatch == [from |-> 0, to |-> 0]

MatchLazy(str, start, end) ==
    LET Ends(i) == {j \in (i + Len(start) + 1)..Len(str) : IsSubAt(str, end, j)}
        S == {i \in 1..Len(str) : IsSubAt(str, start, i) /\ Ends(i) # {}}
    IN IF S = {} THEN NoMatch
       ELSE [from |-> Least(S), to |-> Least(Ends(Least(S))) + Len(end) - 1]

\* the group (.+?) of the match
GroupOf(str, start, end) ==
    LET m == MatchLazy(str, start, end)
    IN SubSeq(str, m.from + Len(start), m.to - Len(end))

\* ---- the export ----
HasLessThan(token) == token \in {"<a", "</a>", "<strong>", "</strong>"}

\* extractTextFromLinkHtml: text.match(/<a [^>]+>([^<]+)<\/a>/)?.[1], and
\* linkText ?? '' of the caller
extractTextFromLinkHtml(linkTag) ==
    LET close == IndexOf(linkTag, <<">">>)
        text  == SubSeq(linkTag, close + 1, Len(linkTag) - 1)
    IN IF /\ close > 3
          /\ text # <<>>
          /\ \A k \in 1..Len(text) : ~HasLessThan(text[k])
       THEN text
       ELSE <<>>

\* data.items.find((m) => m.system.id === id)
ItemWithGivenId(id) == id = <<"id1">>

Processed(html, warnings) == [html |-> html, warnings |-> warnings]

\* the function given to replaceAll(linkRegex, ...) by the export
ExportLinkTag(linkTag) ==
    LET start == dataItemIdAttributeName \o <<"=\"">>
        end   == <<"\"">>
        id    == GroupOf(linkTag, start, end)
    IN IF MatchLazy(linkTag, start, end) = NoMatch
       THEN Processed(linkTag, <<>>)
       ELSE IF ~ItemWithGivenId(id)
       THEN IF replaceInvalidLinks
            THEN Processed(extractTextFromLinkHtml(linkTag), <<[pass |-> "export", ref |-> id]>>)
            ELSE Processed(linkTag, <<[pass |-> "export", ref |-> id]>>)
       ELSE Processed(ReplaceFirst(ReplaceFirst(linkTag, id, <<itemCodename>>),
                                   dataItemIdAttributeName, linkCodenameAttributeName),
                      <<>>)

\* the function given to replaceAll(linkRegex, ...) by the import
ImportLinkTag(linkTag) ==
    LET start    == linkCodenameAttributeName \o <<"=\"">>
        end      == <<"\"">>
        codename == GroupOf(linkTag, start, end)
    IN IF MatchLazy(linkTag, start, end) = NoMatch
       THEN Processed(linkTag, <<>>)
       ELSE IF ~(itemImported /\ codename = <<itemCodename>>)
       THEN Processed(linkTag, <<[pass |-> "import", ref |-> codename]>>)
       ELSE Processed(ReplaceFirst(ReplaceFirst(linkTag, codename, <<"tid">>),
                                   linkCodenameAttributeName, dataItemIdAttributeName),
                      <<>>)

\* richTextHtml.replaceAll(linkRegex, ...), linkRegex being <a(.+?)</a>
RECURSIVE ReplaceAllLinks(_, _)
ReplaceAllLinks(html, pass) ==
    LET m == MatchLazy(html, <<"<a">>, <<"</a>">>)
    IN IF m = NoMatch THEN Processed(html, <<>>)
       ELSE LET linkTag == SubSeq(html, m.from, m.to)
                link    == IF pass = "export" THEN ExportLinkTag(linkTag)
                           ELSE ImportLinkTag(linkTag)
                rest    == ReplaceAllLinks(SubSeq(html, m.to + 1, Len(html)), pass)
            IN Processed(SubSeq(html, 1, m.from - 1) \o link.html \o rest.html,
                         link.warnings \o rest.warnings)

processExportRichTextHtmlValue(html) ==
    IF html = <<>> THEN Processed(<<>>, <<>>) ELSE ReplaceAllLinks(html, "export")

processImportRichTextHtmlValue(html) ==
    IF html = <<>> THEN Processed(<<>>, <<>>) ELSE ReplaceAllLinks(html, "import")

InitRichText ==
    /\ richTextAnchors \in SeqsUpTo(AnchorShapes, MaxAnchors)
    /\ itemCodename \in LinkCodenames
    /\ replaceInvalidLinks \in BOOLEAN
    /\ itemImported \in BOOLEAN
    /\ exportedHtml = <<>>
    /\ importedHtml = <<>>
    /\ richTextWarnings = <<>>
    /\ richTextPc = "source"
    /\ HarnessIdle
    /\ ImportIdle
    /\ ContentItemsIdle
    /\ RetryIdle
    /\ NoSignal
    /\ NoStage
    /\ ExportIdle
    /\ ClosureIdle
    /\ MapIdle
    /\ MigrateIdle
    /\ AssetsIdle
    /\ RoundTripIdle

RichTextFrame ==
    UNCHANGED <<harnessVars, importVars, contentItemVars, retryVars, signalVars,
                stageVars, exportVars, closureVars, mapVars, migrateVars, assetVars,
                roundTripVars, richTextAnchors, itemCodename, replaceInvalidLinks,
                itemImported>>

\* the rich text element is exported
ExportRichText ==
    /\ richTextPc = "source"
    /\ LET processed == processExportRichTextHtmlValue(HtmlOf(richTextAnchors))
       IN /\ exportedHtml' = processed.html
          /\ richTextWarnings' = processed.warnings
    /\ richTextPc' = "exported"
    /\ UNCHANGED importedHtml
    /\ RichTextFrame

\* the exported value is imported
ImportRichText ==
    /\ richTextPc = "exported"
    /\ LET processed == processImportRichTextHtmlValue(exportedHtml)
       IN /\ importedHtml' = processed.html
          /\ richTextWarnings' = richTextWarnings \o processed.warnings
    /\ richTextPc' = "imported"
    /\ UNCHANGED exportedHtml
    /\ RichTextFrame

NextRichText == ExportRichText \/ ImportRichText

SpecRichText == InitRichText /\ [][NextRichText]_vars /\ WF_vars(NextRichText)

\* the text of an anchor's content
PlainTextOf(body) == SelectSeq(body, LAMBDA token : ~HasLessThan(token))

\* what the passes are to make of an anchor
ExpectedExportOf(a) ==
    IF a.id = "id1" THEN AnchorTag(linkCodenameAttributeName, itemCodename, a.body)
    ELSE IF replaceInvalidLinks THEN PlainTextOf(a.body)
    ELSE AnchorTag(dataItemIdAttributeName, a.id, a.body)

ExpectedImportOf(a) ==
    IF a.id = "id1" THEN AnchorTag(dataItemIdAttributeName, "tid", a.body)
    ELSE ExpectedExportOf(a)

RECURSIVE ExpectedExport(_)
ExpectedExport(anchors) ==
    IF anchors = <<>> THEN <<>>
    ELSE <<"T">> \o ExpectedExportOf(Head(anchors)) \o ExpectedExport(Tail(anchors))

RECURSIVE ExpectedImport(_)
ExpectedImport(anchors) ==
    IF anchors = <<>> THEN <<>>
    ELSE <<"T">> \o ExpectedImportOf(Head(anchors)) \o ExpectedImport(Tail(anchors))

UnresolvedAnchors == {k \in 1..Len(richTextAnchors) : richTextAnchors[k].id # "id1"}

\* C36: the export rewrites an anchor whose data-item-id is the id of a
\* source item to carry data-manager-link-codename with the item's
\* codename, and the import rewrites it back to data-item-id with the id
\* of the item in the target; an anchor whose id is unresolved is replaced
\* by its plain text when replaceInvalidLinks is set, and is otherwise left
\* as it is, with a warning.
C36_LinksRewrittenBothWays ==
    /\ richTextPc \in {"exported", "imported"} =>
        /\ exportedHtml = ExpectedExport(richTextAnchors)
        /\ \A k \in UnresolvedAnchors :
            \E w \in 1..Len(richTextWarnings) :
                richTextWarnings[w] = [pass |-> "export", ref |-> <<richTextAnchors[k].id>>]
    /\ (richTextPc = "imported" /\ itemImported) =>
        importedHtml = ExpectedImport(richTextAnchors)

=============================================================================
